---- MODULE Spec2Model ----
(***************************************************************************)
(* A model of the ADB projects scraper's fetch-and-crawl engine:           *)
(*   - HybridFetcher (adb_scraper/cloudflare.py): the escalating fetcher,  *)
(*   - retry_with_backoff (adb_scraper/utils.py): the retry decorator,     *)
(*   - ADBProjectScraper (adb_scraper/scraper.py): page fetch and the      *)
(*     scrape_projects generator.                                          *)
(* Several specifications share the variables, each driving one component  *)
(* and holding the others idle: HybridSpec one HybridFetcher with          *)
(* arbitrary backend responses, RetrySpec one decorated function, Spec one *)
(* scraper through a crawl, LimiterSpec the rate limiter, ClassifySpec the *)
(* block classifiers, FetchSpec one retried page fetch, StatsSpec the      *)
(* statistics, BackoffSpec the retry delays, PwFetchSpec one browser       *)
(* fetch, PwSpec and RunSpec the browser and session resources,            *)
(* EscalationSpec the fetches of one client, TermSpec the control flow of  *)
(* one crawl under fair scheduling, InteractiveSpec one                    *)
(* InteractiveScraper.scrape call (adb_scraper/interactive.py), PaceSpec   *)
(* the request times of one scraper, TwinSpec two scrapers side by side.   *)
(***************************************************************************)
EXTENDS Integers, Sequences, FiniteSets, TLC

VARIABLES
    \* ---- HybridFetcher instance (cloudflare.py:275-283) ----
    use_playwright_fallback,  \* constructor argument
    cloudflare_detected,      \* self._cloudflare_detected
    consecutive_failures,     \* self._consecutive_failures
    playwright,               \* self._playwright is not None
    \* ---- observation of HybridFetcher.fetch calls ----
    hfCalls,                  \* number of fetch calls made so far
    hfLast,                   \* what the last fetch call did
    hfPatternBefore,          \* a call before the last one was blocked-then-ok
    \* ---- one function decorated by retry_with_backoff (utils.py:47-110) ----
    rt_max_retries,           \* decorator argument max_retries
    rt_exceptions,            \* decorator argument exceptions (class names)
    rt_on_retry,              \* decorator argument on_retry: "none", "returns", "raises"
    rt_pc,                    \* "running", "returned" or "raised"
    rt_attempt,               \* the loop variable attempt
    rt_calls,                 \* invocations of the wrapped function so far
    rt_nfail,                 \* how many of them raised
    rt_lastOutcome,           \* what the last invocation did
    rt_sleeps,                \* attempt indices after which time.sleep ran
    rt_observed,              \* the (exception, attempt) pairs given to on_retry
    rt_result,                \* what the wrapper returned or raised
    \* ---- ADBProjectScraper instance (scraper.py:56-114) ----
    fetcher,                  \* self._fetcher is not None
    stats,                    \* self.stats
    \* ---- one scrape_projects generator (scraper.py:312-383) ----
    max_pages,                \* argument max_pages (None: not given)
    include_details,          \* argument include_details
    start_page,               \* argument start_page
    current_page,             \* local current_page
    pages_scraped,            \* local pages_scraped
    next_url,                 \* local next_url
    projects,                 \* local projects
    idx,                      \* position of the for loop in projects
    pc,                       \* where the generator is
    fetch_attempt,            \* loop variable attempt of the running _fetch_with_retry (0 outside)
    \* ---- observation of the crawl ----
    nListing,                 \* number of scrape_listing_page calls so far
    fetchedUrls,              \* the URLs given to scrape_listing_page so far
    nFetches,                 \* _fetch_with_retry calls started so far
    nYieldedPage,             \* number of records yielded from the current page
    nYieldPages,              \* listing pages from which a record was yielded
    nYielded,                 \* records yielded so far
    lastYield,                \* the record the generator is suspended on (NoRecord: none)
    lastFetch,                \* how the last _fetch_with_retry call ended (until its result is used)
    ended,                    \* why the generator finished
    \* ---- one RateLimiter (utils.py:113-150) and the clock time.time() reads ----
    min_delay,                \* self.min_delay
    max_delay,                \* self.max_delay
    last_request_time,        \* self.last_request_time (None: not set)
    now,                      \* the clock
    rl_prev,                  \* return time of the wait() before the last one (None: no
                              \* such call since construction or the last reset())
    rl_slept,                 \* the time the last wait() slept
    rl_op,                    \* the last operation: "none", "wait", "reset", "tick"
    rl_reset_seen,            \* reset() has been called
    \* ---- one response given to the two block classifiers ----
    cl_content,               \* the body
    cl_status,                \* the status code
    cl_headers,               \* the headers
    cl_pc,                    \* "unused", "input" or "classified"
    cl_hybrid,                \* what HybridFetcher._is_blocked returned
    cl_scraper,               \* what ADBProjectScraper._is_cloudflare_block returned
    \* ---- one _fetch_with_retry call on a scraper ----
    self_max_retries,         \* self.max_retries, the constructor argument
    fpLast,                   \* what the last _fetch_page call did
    \* ---- the dict objects of one scraper and of the caller of get_stats ----
    st_heap,                  \* the dict objects, by identity (NoObj: no such object)
    st_self,                  \* the object self.stats refers to
    st_held,                  \* the objects get_stats returned to the caller
    st_op,                    \* the last operation on the statistics
    \* ---- the sleeps of one retry_with_backoff wrapper (utils.py:90-105) ----
    bo_max_retries,           \* decorator argument max_retries
    bo_base_delay,            \* decorator argument base_delay
    bo_max_delay,             \* decorator argument max_delay
    bo_exponential_base,      \* decorator argument exponential_base
    bo_jitter,                \* decorator argument jitter
    bo_attempt,               \* the loop variable attempt
    bo_sleeps,                \* the arguments of time.sleep so far, in units of
                              \* 1/(2*JitterSteps) second
    \* ---- one PlaywrightFetcher.fetch call (cloudflare.py:216-249) ----
    pf_pc,                    \* "start", "poll", "final", "returned" or "raised"
    pf_response,              \* status of the response goto returned (None: no response)
    pf_content,               \* local content: the last page.content() read
    pf_waited,                \* local waited
    pf_reads,                 \* page.content() reads made inside the while loop
    pf_settles,               \* final wait_for_timeout(2000) calls made
    pf_result,                \* what fetch returned or raised
    \* ---- the resources of one PlaywrightFetcher, one HybridFetcher, one scraper ----
    pw_handles,               \* PlaywrightFetcher._playwright, _browser, _context, _page
                              \* (0: None, else the identity of the resource)
    res_all,                  \* every resource started so far, as <<kind, identity>>
    res_live,                 \* those of them not closed or stopped yet
    pw_op,                    \* the last PlaywrightFetcher operation: "ensure", "close"
    pw_touched,               \* the resources the last close() called close/stop on
    pw_closes,                \* close() calls so far
    cs_session,               \* CloudscraperFetcher._session (0: None)
    rs_session,               \* ADBProjectScraper.session
    rs_pc,                    \* main(): "run", "exiting" (the finally clause is due), "finished"
    rs_exit,                  \* how the run ended
    \* ---- who calls the fetcher in EscalationSpec ----
    bp_client,                \* "scraper": an ADBProjectScraper; "direct": code that
                              \* built a HybridFetcher itself
    \* ---- one InteractiveScraper.scrape call (interactive.py:112-200) ----
    is_pc,                    \* where the call is
    is_max_pages,             \* argument max_pages
    is_pages_scraped,         \* local pages_scraped
    is_parsed,                \* listing pages parsed so far
    is_collected,             \* len(all_projects)
    is_next_url,              \* local next_url is set
    is_saved,                 \* number of records written to output_file (None: no write)
    is_result,                \* length of the returned list (None: nothing returned)
    is_timed_out,             \* a challenge wait after a next-page navigation timed out
    \* ---- the pacers of one scraper's three request paths ----
    pa_cs_last,               \* CloudscraperFetcher._last_request
    pa_pw_last,               \* PlaywrightFetcher._last_request
    pa_last_start,            \* start time of the last request sent (None: no request yet)
    pa_min_gap,               \* least time between two consecutive requests (None: no pair yet)
    pa_light,                 \* what the last CloudscraperFetcher.fetch call did
    \* ---- a second scraper, given the same answers as the first ----
    tw_reset,                 \* reset_stats was called on the second scraper
    tw_state,                 \* the state of its HybridFetcher
    tw_trace,                 \* what its last _fetch_page call did
    tw_outcome,               \* what that call returned or raised
    tw_ref_outcome            \* what the first scraper's last _fetch_page call returned or raised

hfVars == <<use_playwright_fallback, cloudflare_detected, consecutive_failures,
            playwright, hfCalls, hfLast, hfPatternBefore>>

rtVars == <<rt_max_retries, rt_exceptions, rt_on_retry, rt_pc, rt_attempt,
            rt_calls, rt_nfail, rt_lastOutcome, rt_sleeps, rt_observed, rt_result>>

scraperVars == <<fetcher, stats>>

genVars == <<max_pages, include_details, start_page, current_page, pages_scraped,
             next_url, projects, idx, pc, fetch_attempt>>

obsVars == <<nListing, fetchedUrls, nFetches, nYieldedPage, nYieldPages, nYielded, lastYield, lastFetch, ended>>

crawlVars == <<scraperVars, genVars, obsVars>>

rlVars == <<min_delay, max_delay, last_request_time, now, rl_prev, rl_slept, rl_op,
            rl_reset_seen>>

clVars == <<cl_content, cl_status, cl_headers, cl_pc, cl_hybrid, cl_scraper>>

fsVars == <<self_max_retries, fpLast>>

stVars == <<st_heap, st_self, st_held, st_op>>

boVars == <<bo_max_retries, bo_base_delay, bo_max_delay, bo_exponential_base, bo_jitter,
            bo_attempt, bo_sleeps>>

pfVars == <<pf_pc, pf_response, pf_content, pf_waited, pf_reads, pf_settles, pf_result>>

pwVars == <<pw_handles, res_all, res_live, pw_op, pw_touched, pw_closes>>

rsVars == <<cs_session, rs_session, rs_pc, rs_exit>>

resVars == <<pwVars, rsVars>>

bpVars == <<bp_client>>

isVars == <<is_pc, is_max_pages, is_pages_scraped, is_parsed, is_collected, is_next_url,
            is_saved, is_result, is_timed_out>>

paVars == <<pa_cs_last, pa_pw_last, pa_last_start, pa_min_gap, pa_light>>

twVars == <<tw_reset, tw_state, tw_trace, tw_outcome, tw_ref_outcome>>

sideVars == <<isVars, paVars, twVars>>

extVars == <<stVars, boVars, pfVars, resVars, bpVars, sideVars>>

auxVars == <<rlVars, clVars, fsVars, extVars>>

vars == <<hfVars, rtVars, crawlVars, auxVars>>

(***************************************************************************)
(* Bounds of the model.                                                    *)
(***************************************************************************)
MaxCalls == 3

MaxRetriesArg == 3

MaxPagesArg == 1

MaxFetches == 3

MaxItems == 2

MaxFailures == 1

MaxDelay == 2

MaxClock == 6

MaxObjects == 2

MaxCount == 1

MaxBackoff == 3

JitterSteps == 4

MaxResources == 10

\* Python's None where an integer is expected (negative arguments are not modelled).
None == -1

(***************************************************************************)
(* Backend responses.  A content is modelled by the challenge phrases that *)
(* occur in it, each with the offset where it starts; a backend call       *)
(* either returns (content, status) or raises.                             *)
(***************************************************************************)
Blockers ==
    {"Checking your browser", "Just a moment", "cf-browser-verification",
     "challenge-platform", "Cloudflare Ray ID"}

\* needle is a substring of phrase.
Contains(phrase, needle) ==
    phrase = needle \/ (phrase = "Just a moment..." /\ needle = "Just a moment")

\* "needle in content"
Occurs(needle, content) == \E o \in content : Contains(o[1], needle)

Contents ==
    {{}, {<<"Just a moment...", 0>>},
     {<<"challenge-platform", 2000>>, <<"Cloudflare Ray ID", 2000>>}}

Statuses == {200, 403, 404, 429, 503}

Resp(c, s) == [kind |-> "resp", content |-> c, status |-> s, exc |-> "none"]

Raise(e) == [kind |-> "raise", content |-> {}, status |-> 0, exc |-> e]

NotInvoked == [kind |-> "skipped", content |-> {}, status |-> 0, exc |-> "none"]

Responses == {Resp(c, s) : c \in Contents, s \in Statuses}

\* CloudscraperFetcher.fetch returns the response or re-raises whatever
\* session.get raised.
LightOutcomes == Responses \cup {Raise("Exception")}

\* PlaywrightFetcher.fetch returns the page or raises; _ensure_browser raises
\* ImportError or RuntimeError.
BrowserOutcomes == Responses \cup {Raise("Exception"), Raise("ImportError")}

(***************************************************************************)
(* HybridFetcher._is_blocked                                               *)
(***************************************************************************)
is_blocked_noGate(content, status_code) ==
    \E blocker \in Blockers : Occurs(blocker, content)

is_blocked(content, status_code) ==
    IF status_code \in {403, 503}
    THEN \E blocker \in Blockers : Occurs(blocker, content)
    ELSE FALSE

Blocked(r) == r.kind = "resp" /\ is_blocked(r.content, r.status)

(***************************************************************************)
(* PlaywrightFetcher.fetch: the wait for the Cloudflare challenge.         *)
(***************************************************************************)
\* max_wait and wait_interval, in milliseconds.
MaxWait == 30000

WaitInterval == 2000

\* What page.content() may show.
PageContents ==
    {{}, {<<"Just a moment...", 0>>}, {<<"Checking your browser", 0>>},
     {<<"challenge-platform", 2000>>, <<"Cloudflare Ray ID", 2000>>}}

\* What goto returns: a response with a status, or None.
GotoResponses == Statuses \cup {None}

\* "'Checking your browser' in content or 'Just a moment' in content"
ShowsChallenge(content) ==
    Occurs("Checking your browser", content) \/ Occurs("Just a moment", content)

\* The condition of the while loop.
PollAgain_whileChallenge(waited, content) == ShowsChallenge(content)

PollAgain(waited, content) == waited < MaxWait /\ ShowsChallenge(content)

\* "status = response.status if response else 200"
StatusOf(response) == IF response = None THEN 200 ELSE response

(***************************************************************************)
(* PlaywrightFetcher._ensure_browser and close: the handles and the        *)
(* resources behind them.  A resource is <<kind, identity>>.               *)
(***************************************************************************)
\* The handles after __init__ and after close().
NoHandles == [playwright |-> 0, browser |-> 0, context |-> 0, page |-> 0]

\* What _ensure_browser starts, in order: sync_playwright().start(),
\* chromium.launch(), new_context(), new_page().
InitSteps == <<"driver", "browser", "context", "page">>

\* The call of _ensure_browser that raises ("none": no call raises).
FailPoints == {"none", "start", "launch", "new_context", "new_page"}

\* How many of the four calls returned.
Completed(failAt) ==
    CASE failAt = "start"       -> 0
      [] failAt = "launch"      -> 1
      [] failAt = "new_context" -> 2
      [] failAt = "new_page"    -> 3
      [] OTHER                  -> 4

\* _ensure_browser: nothing when self._browser is set; else the four calls,
\* each result assigned to its handle as soon as the call returns.
EnsureBrowser(h, all, live, failAt) ==
    IF h.browser # 0
    THEN [h |-> h, all |-> all, live |-> live]
    ELSE LET n    == Completed(failAt)
             base == Cardinality(all)
             new  == {<<InitSteps[i], base + i>> : i \in 1..n}
         IN  [h    |-> [playwright |-> IF n >= 1 THEN base + 1 ELSE h.playwright,
                        browser    |-> IF n >= 2 THEN base + 2 ELSE h.browser,
                        context    |-> IF n >= 3 THEN base + 3 ELSE h.context,
                        page       |-> IF n >= 4 THEN base + 4 ELSE h.page],
              all  |-> all \cup new,
              live |-> live \cup new]

\* The resources the handles refer to.
HandleSet(h) ==
    {r \in {<<"driver", h.playwright>>, <<"browser", h.browser>>,
            <<"context", h.context>>, <<"page", h.page>>} : r[2] # 0}

\* PlaywrightFetcher.close: close/stop is called on every handle that is set,
\* then the four handles are set to None.
PwClose_keepHandles(h, live) ==
    [h |-> h, live |-> live \ HandleSet(h), touched |-> HandleSet(h)]

PwClose(h, live) ==
    [h |-> NoHandles, live |-> live \ HandleSet(h), touched |-> HandleSet(h)]

\* main(): scraper.close() is in the finally clause of the try block, so it
\* runs whichever way the block is left.
ClosesOnExit_normalOnly(way) == way \in {"exhausted", "limit"}

ClosesOnExit(way) == TRUE

\* CloudscraperFetcher.session: the session is created on first use.
EnsureSession(sess, all, live) ==
    IF sess # 0
    THEN [sess |-> sess, all |-> all, live |-> live]
    ELSE [sess |-> Cardinality(all) + 1,
          all  |-> all \cup {<<"session", Cardinality(all) + 1>>},
          live |-> live \cup {<<"session", Cardinality(all) + 1>>}]

(***************************************************************************)
(* HybridFetcher.fetch as a function of the instance state and of what the *)
(* two backends answer.  The result is the returned response, or           *)
(* Raise("RuntimeError") for "All fetch strategies failed".                *)
(***************************************************************************)
\* The lightweight backend is called unless Cloudflare is known to be active.
TryLight_always(detected) == TRUE

TryLight(detected) == ~detected

\* The lightweight attempt returned a response that is not blocked.
LightOk(detected, light) ==
    TryLight(detected) /\ light.kind = "resp" /\ ~Blocked(light)

\* self._cloudflare_detected after the lightweight attempt.
NextDetected_latest(detected, light) == TryLight(detected) /\ Blocked(light)

NextDetected(detected, light) == detected \/ (TryLight(detected) /\ Blocked(light))

\* self._consecutive_failures after the lightweight attempt.
NextFailures(detected, failures, light) ==
    IF LightOk(detected, light) THEN 0
    ELSE IF TryLight(detected) /\ light.kind = "raise" THEN failures + 1
    ELSE failures

\* The Playwright fallback is tried when the lightweight attempt did not return.
TryBrowser_ignoreFlag(detected, fallback, light) == ~LightOk(detected, light)

TryBrowser(detected, fallback, light) == ~LightOk(detected, light) /\ fallback

\* What fetch returns or raises.
FetchResult_unclassified(detected, fallback, light, browser) ==
    IF LightOk(detected, light) THEN light
    ELSE IF TryBrowser(detected, fallback, light) /\ browser.kind = "resp"
         THEN browser
    ELSE Raise("RuntimeError")

FetchResult(detected, fallback, light, browser) ==
    IF LightOk(detected, light) THEN light
    ELSE IF /\ TryBrowser(detected, fallback, light)
            /\ browser.kind = "resp"
            /\ ~Blocked(browser)
         THEN browser
    ELSE Raise("RuntimeError")

HybridFetch(detected, failures, pw, fallback, light, browser) ==
    [detected |-> NextDetected(detected, light),
     failures |-> NextFailures(detected, failures, light),
     pw       |-> pw \/ TryBrowser(detected, fallback, light),
     light    |-> IF TryLight(detected) THEN light ELSE NotInvoked,
     browser  |-> IF TryBrowser(detected, fallback, light) THEN browser
                  ELSE NotInvoked,
     result   |-> FetchResult(detected, fallback, light, browser)]

NoCall ==
    [pre |-> FALSE, light |-> NotInvoked, browser |-> NotInvoked,
     result |-> NotInvoked]

\* The last call found the lightweight response blocked in NORMAL state and
\* got a browser response that is not blocked.
BlockedThenOk(c) ==
    /\ ~c.pre
    /\ Blocked(c.light)
    /\ c.browser.kind = "resp" /\ ~Blocked(c.browser)

(***************************************************************************)
(* Exception classes (exceptions.py) and the match of an except clause.    *)
(***************************************************************************)
Parent(cls) ==
    CASE cls = "RateLimitError"       -> "NetworkError"
      [] cls = "NetworkError"         -> "ScraperError"
      [] cls = "ParseError"           -> "ScraperError"
      [] cls = "CloudflareBlockError" -> "ScraperError"
      [] cls = "ScraperError"         -> "Exception"
      [] cls = "RuntimeError"         -> "Exception"
      [] cls = "RequestException"     -> "Exception"
      [] cls = "ObserverError"        -> "Exception"
      [] OTHER                        -> "Exception"

Ancestors(cls) ==
    {cls, Parent(cls), Parent(Parent(cls)), Parent(Parent(Parent(cls)))}

\* "except classes as e" catches an instance of cls.
Catches(classes, cls) == Ancestors(cls) \cap classes # {}

(***************************************************************************)
(* retry_with_backoff: what one iteration of the wrapper's loop does with  *)
(* the outcome of the wrapped function.                                    *)
(***************************************************************************)
Ok(v) == [kind |-> "ok", exc |-> "none", msg |-> 0, value |-> v]

Fail(e, m) == [kind |-> "raise", exc |-> e, msg |-> m, value |-> 0]

NoOutcome == [kind |-> "none", exc |-> "none", msg |-> 0, value |-> 0]

RetryDecision_early(max_retries, exceptions, attempt, outcome) ==
    IF outcome.kind = "ok" THEN "return"
    ELSE IF ~Catches(exceptions, outcome.exc) THEN "propagate"
    ELSE IF attempt >= max_retries - 1 THEN "reraise"
    ELSE "retry"

RetryDecision_late(max_retries, exceptions, attempt, outcome) ==
    IF outcome.kind = "ok" THEN "return"
    ELSE IF ~Catches(exceptions, outcome.exc) THEN "propagate"
    ELSE IF attempt = max_retries + 1 THEN "reraise"
    ELSE "retry"

RetryDecision_catchAll(max_retries, exceptions, attempt, outcome) ==
    IF outcome.kind = "ok" THEN "return"
    ELSE IF attempt = max_retries THEN "reraise"
    ELSE "retry"

RetryDecision(max_retries, exceptions, attempt, outcome) ==
    IF outcome.kind = "ok" THEN "return"
    ELSE IF ~Catches(exceptions, outcome.exc) THEN "propagate"
    ELSE IF attempt = max_retries THEN "reraise"
    ELSE "retry"

\* b ** n for a natural n
RECURSIVE Pow(_, _)
Pow(b, n) == IF n = 0 THEN 1 ELSE b * Pow(b, n - 1)

\* min(a, b)
Min(a, b) == IF a <= b THEN a ELSE b

\* "delay = min(base_delay * (exponential_base ** attempt), max_delay)"
BackoffDelay(base_delay, exponential_base, cap, attempt) ==
    Min(base_delay * Pow(exponential_base, attempt), cap)

\* random.random() draws k/JitterSteps for a k in this set.
RandomDraws == 0..(JitterSteps - 1)

\* The argument of time.sleep, in units of 1/(2*JitterSteps) second:
\* delay * (0.5 + k/JitterSteps) with jitter, delay without.
SleepArg(delay, jitter, k) ==
    IF jitter THEN delay * (JitterSteps + 2 * k) ELSE delay * 2 * JitterSteps

\* A number of seconds in the unit of SleepArg.
Seconds(n) == n * 2 * JitterSteps

\* What the wrapped function may do on one invocation.
OpOutcomes ==
    {Ok(v) : v \in {1, 2}}
    \cup {Fail(e, m) : e \in {"NetworkError", "RateLimitError", "ParseError"},
                       m \in {1, 2}}

(***************************************************************************)
(* URLs and records of the crawl.                                          *)
(***************************************************************************)
\* ADBProjectScraper.PROJECTS_URL: the listing URL without a query.
PROJECTS_URL == [path |-> "projects", page |-> None]

\* No URL (Python's None).
NoUrl == [path |-> "none", page |-> None]

\* build_url(base_url, page=page): the URL with the query parameter page set.
build_url(base_url, page) == [base_url EXCEPT !.page = page]

\* The start_page arguments tried.
StartPages == {1, 2}

\* What ListingPageParser.get_next_page_url may return.
NextPointers == {NoUrl, PROJECTS_URL, build_url(PROJECTS_URL, 1)}

\* A ProjectListing parsed from a listing page.
ProjectListing(id) == [project_id |-> id, cls |-> "ProjectListing", data |-> "listing"]

\* ProjectDetail.from_listing(project): a ProjectDetail holding the listing's fields.
from_listing(project) ==
    [project_id |-> project.project_id, cls |-> "ProjectDetail", data |-> "listing"]

\* DetailPageParser(html, url, project).parse(): the listing's fields plus the
\* fields read from the detail page.
parse_detail(project) ==
    [project_id |-> project.project_id, cls |-> "ProjectDetail", data |-> "detail"]

NoRecord == [project_id |-> 0, cls |-> "none", data |-> "none"]

\* What ListingPageParser.parse may return for a page: no record, or the
\* records 1..n in document order.
ItemLists == {[i \in 1..n |-> ProjectListing(i)] : n \in 0..MaxItems}

StatKeys ==
    {"pages_scraped", "projects_found", "details_fetched", "errors",
     "cloudflare_bypassed"}

(***************************************************************************)
(* The statistics dict (scraper.py:107-114, 425-440).  Dicts are objects:  *)
(* st_heap maps an object identity to the dict's content, and a reference  *)
(* is an identity.                                                         *)
(***************************************************************************)
\* The dict built by __init__.
InitialStats == [k \in StatKeys |-> 0]

\* The dict built by reset_stats.
ResetStatsDict ==
    [k \in {"pages_scraped", "projects_found", "details_fetched", "errors"} |-> 0]

\* No object with this identity.
NoObj == [free |-> TRUE]

\* d[k] = v and del d[k]
DictSet(d, k, v) == [x \in DOMAIN d \cup {k} |-> IF x = k THEN v ELSE d[x]]

DictDel(d, k) == [x \in DOMAIN d \ {k} |-> d[x]]

\* self.stats[k] += 1 inside a scrape operation; the KeyError of a missing
\* 'cloudflare_bypassed' is caught in _fetch_page and nothing is counted.
Increment(d, k) == IF k \in DOMAIN d THEN DictSet(d, k, d[k] + 1) ELSE d

\* The sum of the counters of a dict.
RECURSIVE TotalOver(_, _)
TotalOver(d, keys) ==
    IF keys = {} THEN 0
    ELSE LET k == CHOOSE x \in keys : TRUE
         IN  d[k] + TotalOver(d, keys \ {k})

Total(d) == TotalOver(d, DOMAIN d)

\* The identity a newly built dict gets.
HasFree(heap) == \E i \in DOMAIN heap : heap[i] = NoObj

Alloc(heap) == CHOOSE i \in DOMAIN heap : heap[i] = NoObj /\ \A j \in 1..(i - 1) : heap[j] # NoObj

\* get_stats: the heap after the call and the reference returned.
get_stats_noCopy(heap, self) == [heap |-> heap, ref |-> self]

get_stats(heap, self) ==
    [heap |-> [heap EXCEPT ![Alloc(heap)] = heap[self]], ref |-> Alloc(heap)]

\* What the caller of get_stats may do to the dict it was given.
CallerWrites(d) == {DictSet(d, "errors", 7), DictDel(d, "errors")}

(***************************************************************************)
(* ADBProjectScraper._fetch_page                                           *)
(***************************************************************************)
\* A response of the fallback requests session.
SResp(c, s, h) ==
    [kind |-> "resp", content |-> c, status |-> s, headers |-> h, exc |-> "none"]

SRaise(e) ==
    [kind |-> "raise", content |-> {}, status |-> 0, headers |-> {}, exc |-> e]

PhraseLen(needle) ==
    CASE needle = "Checking your browser"   -> 21
      [] needle = "cf-browser-verification" -> 23
      [] needle = "Just a moment..."        -> 16
      [] OTHER                              -> 0

\* "needle in text[:n]"
OccursIn(needle, content, n) ==
    \E o \in content : Contains(o[1], needle) /\ o[2] + PhraseLen(needle) <= n

\* ADBProjectScraper._is_cloudflare_block
is_cloudflare_block(response) ==
    /\ \/ "cf-ray" \in response.headers
       \/ "server: cloudflare" \in response.headers
       \/ OccursIn("Checking your browser", response.content, 1000)
       \/ OccursIn("cf-browser-verification", response.content, 1000)
       \/ OccursIn("Just a moment...", response.content, 500)
    /\ response.status \in {403, 503}

\* The fallback part of _fetch_page: what session.get's answer turns into.
SessionResult(session) ==
    IF session.kind = "raise"
    THEN IF session.exc \in {"Timeout", "ConnectionError"}
         THEN Fail("NetworkError", 0)
         ELSE Fail(session.exc, 0)
    ELSE IF session.status = 429 THEN Fail("RateLimitError", 429)
    ELSE IF is_cloudflare_block(session) THEN Fail("CloudflareBlockError", 0)
    ELSE IF session.status >= 400 THEN Fail("NetworkError", session.status)
    ELSE Ok(1)

\* The fetcher part of _fetch_page returned the content: the fetcher gave a
\* response below 400 and the bypass counter could be incremented.  Every
\* exception raised in that part is caught and leads to the fallback.
ViaFetcher(hasFetcher, hasKey, hresult) ==
    hasFetcher /\ hresult.kind = "resp" /\ hresult.status < 400 /\ hasKey

\* One _fetch_page call: the new HybridFetcher state, whether the bypass
\* counter was incremented, and what the call returned or raised.
FetchPage(hasFetcher, hasKey, detected, failures, pw, fallback, light, browser, session) ==
    LET h   == HybridFetch(detected, failures, pw, fallback, light, browser)
        via == ViaFetcher(hasFetcher, hasKey, h.result)
    IN  [detected |-> IF hasFetcher THEN h.detected ELSE detected,
         failures |-> IF hasFetcher THEN h.failures ELSE failures,
         pw       |-> IF hasFetcher THEN h.pw ELSE pw,
         bypassed |-> via,
         outcome  |-> IF via THEN Ok(1) ELSE SessionResult(session)]

\* What one _fetch_page call did: the answers of the backends HybridFetcher
\* asked, what HybridFetcher.fetch returned or raised, and whether the
\* fallback session was asked for the URL.
FetchPageTrace(hasFetcher, hasKey, detected, failures, pw, fallback, light, browser) ==
    LET h == HybridFetch(detected, failures, pw, fallback, light, browser)
    IN  IF hasFetcher
        THEN [light |-> h.light, browser |-> h.browser, hybrid |-> h.result,
              session |-> ~ViaFetcher(hasFetcher, hasKey, h.result)]
        ELSE [light |-> NotInvoked, browser |-> NotInvoked, hybrid |-> NotInvoked,
              session |-> TRUE]

NoFetchPage ==
    [light |-> NotInvoked, browser |-> NotInvoked, hybrid |-> NotInvoked,
     session |-> FALSE]

\* max_retries and exceptions of the decorator on _fetch_with_retry.
FetchMaxRetries == 3

FetchRetryable_scraperErrors == {"ScraperError"}

FetchRetryable == {"NetworkError"}

\* What the backends may answer during a crawl.
Challenge == {<<"Just a moment...", 0>>}

CrawlLight ==
    {Resp({}, 200), Resp(Challenge, 403), Resp({}, 404), Resp({}, 429),
     Raise("Exception")}

CrawlBrowser == {Resp({}, 200), Resp(Challenge, 503), Raise("Exception")}

CrawlSession ==
    {SResp({}, 200, {}), SResp({}, 404, {}), SResp({}, 429, {}),
     SResp({}, 403, {"cf-ray"}), SRaise("Timeout"), SRaise("RequestException")}

(***************************************************************************)
(* scrape_listing_page, scrape_project_detail and scrape_projects: the     *)
(* decisions of the crawl loop.                                            *)
(***************************************************************************)
\* The page limit check at the top of the loop ("max_pages and ...").
LimitReached(maxp, scraped) == maxp # None /\ maxp # 0 /\ scraped >= maxp

\* The URL of the next listing fetch.
PageUrl_byNumber(nxt, page) ==
    IF page = 1 THEN PROJECTS_URL ELSE build_url(PROJECTS_URL, page - 1)

PageUrl(nxt, page) ==
    IF nxt # NoUrl THEN nxt
    ELSE IF page = 1 THEN PROJECTS_URL
    ELSE build_url(PROJECTS_URL, page - 1)

\* The local url while scrape_listing_page(url=url) runs: next_url and
\* current_page are assigned only after the call has returned.
url == PageUrl(next_url, current_page)

\* Where the loop goes after scrape_listing_page returned.
AfterListing_noStop(items) == "items"

AfterListing(items) == IF items = <<>> THEN "done" ELSE "items"

\* The counters scrape_listing_page updates once the page is parsed.
ListingCounters_pagesOnly(st, items) == [st EXCEPT !["pages_scraped"] = @ + 1]

ListingCounters(st, items) ==
    [st EXCEPT !["pages_scraped"] = @ + 1, !["projects_found"] = @ + Len(items)]

\* An exception leaves _fetch_with_retry in scrape_listing_page: how often
\* stats['errors'] is incremented and how the generator ends.
ListingFailure(exc) ==
    IF ~Catches({"ScraperError"}, exc)
    THEN [errors |-> 0, pc |-> "raised", ended |-> "raised"]
    ELSE IF Catches({"CloudflareBlockError"}, exc)
    THEN [errors |-> 1, pc |-> "done", ended |-> "blocked"]
    ELSE [errors |-> 2, pc |-> "done", ended |-> "error"]

\* An exception leaves _fetch_with_retry or the parser in
\* scrape_project_detail: the increment of stats['errors'], what is yielded
\* for the item and where the generator is then.
DetailFailure_abort(exc, project) ==
    [errors |-> 1, record |-> NoRecord, pc |-> "raised"]

DetailFailure(exc, project) ==
    IF Catches({"ScraperError"}, exc)
    THEN [errors |-> 1, record |-> from_listing(project), pc |-> "yield"]
    ELSE [errors |-> 0, record |-> project, pc |-> "yield"]

\* How a _fetch_with_retry call ended: for which kind of page, with which
\* exception class ("none": it returned), and whether it raised on the last
\* allowed attempt.
FetchEnd(target, outcome, n) ==
    [target |-> target, exc |-> outcome.exc,
     exhausted |-> (outcome.kind = "raise" /\ n = FetchMaxRetries)]

NoFetch == [target |-> "none", exc |-> "none", exhausted |-> FALSE]

(***************************************************************************)
(* Inputs of the two block classifiers.                                    *)
(***************************************************************************)
ClassifierContents ==
    Contents \cup {{<<"Checking your browser", 0>>},
                   {<<"cf-browser-verification", 990>>},
                   {<<"Just a moment...", 490>>}}

ClassifierStatuses == Statuses \cup {201, 204, 301, 500}

ClassifierHeaders == {{}, {"cf-ray"}, {"server: cloudflare"}}

(***************************************************************************)
(* RateLimiter (utils.py:113-150), with time in whole units.               *)
(***************************************************************************)
\* random.uniform(a, b): a value between the two arguments, whichever is larger.
uniform(a, b) ==
    {d \in 0..MaxDelay : (a <= d /\ d <= b) \/ (b <= d /\ d <= a)}

\* The sleep_time of a wait() call at clock value t that drew delay (0: the
\* call does not sleep).
SleepTime_none(last, t, delay) == 0

SleepTime_noFirstCheck(last, t, delay) ==
    IF t - last < delay THEN delay - (t - last) ELSE 0

SleepTime(last, t, delay) ==
    IF last = None THEN 0
    ELSE IF t - last < delay THEN delay - (t - last)
    ELSE 0

\* time.sleep(x) suspends the caller for x or a little longer.
Oversleep(x) == IF x > 0 THEN {0, 1} ELSE {0}

(***************************************************************************)
(* The components at rest: a specification that drives one of them         *)
(* keeps the others in these states.                                       *)
(***************************************************************************)
hfConfig == <<use_playwright_fallback, hfCalls, hfLast, hfPatternBefore>>

\* A fresh HybridFetcher as create_fetcher('hybrid') builds it.
HybridIdle ==
    /\ use_playwright_fallback = TRUE
    /\ cloudflare_detected = FALSE
    /\ consecutive_failures = 0
    /\ playwright = FALSE
    /\ hfCalls = 0
    /\ hfLast = NoCall
    /\ hfPatternBefore = FALSE

\* The decorated function is not in use.
RetryIdle ==
    /\ rt_max_retries = 0
    /\ rt_exceptions = {}
    /\ rt_on_retry = "none"
    /\ rt_pc = "unused"
    /\ rt_attempt = 0
    /\ rt_calls = 0
    /\ rt_nfail = 0
    /\ rt_lastOutcome = NoOutcome
    /\ rt_sleeps = <<>>
    /\ rt_observed = <<>>
    /\ rt_result = NoOutcome

\* No scrape_projects generator.
GeneratorIdle ==
    /\ max_pages = None
    /\ include_details = FALSE
    /\ start_page = 1
    /\ current_page = 1
    /\ pages_scraped = 0
    /\ next_url = NoUrl
    /\ projects = <<>>
    /\ idx = 0
    /\ pc = "unused"
    /\ fetch_attempt = 0
    /\ nListing = 0
    /\ fetchedUrls = {}
    /\ nFetches = 0
    /\ nYieldedPage = 0
    /\ nYieldPages = 0
    /\ nYielded = 0
    /\ lastYield = NoRecord
    /\ lastFetch = NoFetch
    /\ ended = "no"

\* No scraper, no crawl.
CrawlIdle ==
    /\ fetcher = FALSE
    /\ stats = [k \in StatKeys |-> 0]
    /\ GeneratorIdle

\* A RateLimiter with the default delays that has not been used.
LimiterIdle ==
    /\ min_delay = 1
    /\ max_delay = 3
    /\ last_request_time = None
    /\ now = 0
    /\ rl_prev = None
    /\ rl_slept = 0
    /\ rl_op = "none"
    /\ rl_reset_seen = FALSE

\* No response is being classified.
ClassifyIdle ==
    /\ cl_content = {}
    /\ cl_status = 0
    /\ cl_headers = {}
    /\ cl_pc = "unused"
    /\ cl_hybrid = FALSE
    /\ cl_scraper = FALSE

\* A scraper built with the default max_retries; no _fetch_page call yet.
FetchIdle ==
    /\ self_max_retries = 3
    /\ fpLast = NoFetchPage

\* No dict object is tracked.
StatsIdle ==
    /\ st_heap = [i \in 1..MaxObjects |-> NoObj]
    /\ st_self = 0
    /\ st_held = {}
    /\ st_op = "unused"

\* No wrapper is sleeping.
BackoffIdle ==
    /\ bo_max_retries = 0
    /\ bo_base_delay = 1
    /\ bo_max_delay = 60
    /\ bo_exponential_base = 2
    /\ bo_jitter = TRUE
    /\ bo_attempt = 0
    /\ bo_sleeps = <<>>

\* No PlaywrightFetcher.fetch call is running.
PwFetchIdle ==
    /\ pf_pc = "unused"
    /\ pf_response = None
    /\ pf_content = {}
    /\ pf_waited = 0
    /\ pf_reads = 0
    /\ pf_settles = 0
    /\ pf_result = NotInvoked

\* No resource is tracked.
ResourcesIdle ==
    /\ pw_handles = NoHandles
    /\ res_all = {}
    /\ res_live = {}
    /\ pw_op = "unused"
    /\ pw_touched = {}
    /\ pw_closes = 0
    /\ cs_session = 0
    /\ rs_session = 0
    /\ rs_pc = "unused"
    /\ rs_exit = "none"

BypassIdle == bp_client = "none"

\* No InteractiveScraper.scrape call.
InteractiveIdle ==
    /\ is_pc = "unused"
    /\ is_max_pages = 0
    /\ is_pages_scraped = 0
    /\ is_parsed = 0
    /\ is_collected = 0
    /\ is_next_url = FALSE
    /\ is_saved = None
    /\ is_result = None
    /\ is_timed_out = FALSE

PaceIdle ==
    /\ pa_cs_last = 0
    /\ pa_pw_last = 0
    /\ pa_last_start = None
    /\ pa_min_gap = None
    /\ pa_light = NotInvoked

NoTwinState == [detected |-> FALSE, failures |-> 0, pw |-> FALSE]

TwinIdle ==
    /\ tw_reset = FALSE
    /\ tw_state = NoTwinState
    /\ tw_trace = NoFetchPage
    /\ tw_outcome = NoOutcome
    /\ tw_ref_outcome = NoOutcome

SideIdle == InteractiveIdle /\ PaceIdle /\ TwinIdle

ExtIdle ==
    StatsIdle /\ BackoffIdle /\ PwFetchIdle /\ ResourcesIdle /\ BypassIdle /\ SideIdle

AuxIdle == LimiterIdle /\ ClassifyIdle /\ FetchIdle /\ ExtIdle

(***************************************************************************)
(* HybridSpec: one HybridFetcher, any sequence of fetch calls.             *)
(***************************************************************************)
HybridInit ==
    /\ RetryIdle
    /\ CrawlIdle
    /\ AuxIdle
    /\ use_playwright_fallback \in BOOLEAN
    /\ cloudflare_detected = FALSE
    /\ consecutive_failures = 0
    /\ playwright = FALSE
    /\ hfCalls = 0
    /\ hfLast = NoCall
    /\ hfPatternBefore = FALSE

\* One HybridFetcher.fetch call.
HFetch ==
    /\ hfCalls < MaxCalls
    /\ \E light \in LightOutcomes, browser \in BrowserOutcomes :
         LET r == HybridFetch(cloudflare_detected, consecutive_failures,
                              playwright, use_playwright_fallback, light, browser)
         IN  /\ cloudflare_detected' = r.detected
             /\ consecutive_failures' = r.failures
             /\ playwright' = r.pw
             /\ hfLast' = [pre |-> cloudflare_detected, light |-> r.light,
                           browser |-> r.browser, result |-> r.result]
    /\ hfCalls' = hfCalls + 1
    /\ hfPatternBefore' = (hfPatternBefore \/ (hfCalls > 0 /\ BlockedThenOk(hfLast)))
    /\ UNCHANGED <<use_playwright_fallback, rtVars, crawlVars, auxVars>>

HybridNext == HFetch

HybridSpec == HybridInit /\ [][HybridNext]_vars

(***************************************************************************)
(* RetrySpec: one call of a function decorated by retry_with_backoff.      *)
(***************************************************************************)
RetryInit ==
    /\ rt_max_retries \in 0..MaxRetriesArg
    /\ rt_exceptions \in {{"NetworkError"}, {"Exception"}}
    /\ rt_on_retry \in {"none", "returns", "raises"}
    /\ rt_pc = "running"
    /\ rt_attempt = 0
    /\ rt_calls = 0
    /\ rt_nfail = 0
    /\ rt_lastOutcome = NoOutcome
    /\ rt_sleeps = <<>>
    /\ rt_observed = <<>>
    /\ rt_result = NoOutcome
    /\ HybridIdle
    /\ CrawlIdle
    /\ AuxIdle

\* One iteration of the wrapper's for loop: invoke the function, then return,
\* raise, or notify the observer and sleep.
RtAttempt ==
    /\ rt_pc = "running"
    /\ \E outcome \in OpOutcomes :
         LET d == RetryDecision(rt_max_retries, rt_exceptions, rt_attempt, outcome)
         IN  /\ rt_calls' = rt_calls + 1
             /\ rt_nfail' = IF outcome.kind = "raise" THEN rt_nfail + 1 ELSE rt_nfail
             /\ rt_lastOutcome' = outcome
             /\ \/ /\ d = "return"
                   /\ rt_pc' = "returned"
                   /\ rt_result' = outcome
                   /\ UNCHANGED <<rt_attempt, rt_sleeps, rt_observed>>
                \/ /\ d \in {"propagate", "reraise"}
                   /\ rt_pc' = "raised"
                   /\ rt_result' = outcome
                   /\ UNCHANGED <<rt_attempt, rt_sleeps, rt_observed>>
                \/ /\ d = "retry"
                   /\ rt_on_retry = "raises"
                   /\ rt_pc' = "raised"
                   /\ rt_result' = Fail("ObserverError", 0)
                   /\ rt_observed' = Append(rt_observed, <<outcome, rt_attempt>>)
                   /\ UNCHANGED <<rt_attempt, rt_sleeps>>
                \/ /\ d = "retry"
                   /\ rt_on_retry # "raises"
                   /\ rt_observed' = IF rt_on_retry = "returns"
                                     THEN Append(rt_observed, <<outcome, rt_attempt>>)
                                     ELSE rt_observed
                   /\ rt_sleeps' = Append(rt_sleeps, rt_attempt)
                   /\ rt_attempt' = rt_attempt + 1
                   /\ UNCHANGED <<rt_pc, rt_result>>
    /\ UNCHANGED <<rt_max_retries, rt_exceptions, rt_on_retry, hfVars, crawlVars, auxVars>>

RetryNext == RtAttempt

RetrySpec == RetryInit /\ [][RetryNext]_vars

(***************************************************************************)
(* LimiterSpec: one RateLimiter; wait() and reset() calls with time        *)
(* passing between them.                                                   *)
(***************************************************************************)
LimiterInit ==
    /\ min_delay \in 0..MaxDelay
    /\ max_delay \in 0..MaxDelay
    /\ last_request_time = None
    /\ now = 0
    /\ rl_prev = None
    /\ rl_slept = 0
    /\ rl_op = "none"
    /\ rl_reset_seen = FALSE
    /\ HybridIdle
    /\ RetryIdle
    /\ CrawlIdle
    /\ ClassifyIdle
    /\ FetchIdle
    /\ ExtIdle

\* Time passes between two calls.
Tick ==
    /\ now < MaxClock
    /\ now' = now + 1
    /\ rl_op' = "tick"
    /\ UNCHANGED <<min_delay, max_delay, last_request_time, rl_prev, rl_slept,
                   rl_reset_seen, hfVars, rtVars, crawlVars,
                   clVars, fsVars, extVars>>

\* RateLimiter.wait
Wait ==
    /\ \E delay \in uniform(min_delay, max_delay) :
         LET sleep_time == SleepTime(last_request_time, now, delay)
         IN  /\ \E over \in Oversleep(sleep_time) : now' = now + sleep_time + over
             /\ rl_slept' = sleep_time
    /\ now' <= MaxClock
    /\ last_request_time' = now'
    /\ rl_prev' = last_request_time
    /\ rl_op' = "wait"
    /\ UNCHANGED <<min_delay, max_delay, rl_reset_seen, hfVars, rtVars, crawlVars,
                   clVars, fsVars, extVars>>

\* RateLimiter.reset
Reset ==
    /\ last_request_time' = None
    /\ rl_prev' = None
    /\ rl_op' = "reset"
    /\ rl_reset_seen' = TRUE
    /\ UNCHANGED <<min_delay, max_delay, now, rl_slept, hfVars, rtVars, crawlVars,
                   clVars, fsVars, extVars>>

LimiterNext == Tick \/ Wait \/ Reset

LimiterSpec == LimiterInit /\ [][LimiterNext]_vars

(***************************************************************************)
(* ClassifySpec: one response, given to both block classifiers.            *)
(***************************************************************************)
ClassifyInit ==
    /\ cl_content \in ClassifierContents
    /\ cl_status \in ClassifierStatuses
    /\ cl_headers \in ClassifierHeaders
    /\ cl_pc = "input"
    /\ cl_hybrid = FALSE
    /\ cl_scraper = FALSE
    /\ HybridIdle
    /\ RetryIdle
    /\ CrawlIdle
    /\ LimiterIdle
    /\ FetchIdle
    /\ ExtIdle

\* Both classifiers are applied to the response.
Classify ==
    /\ cl_pc = "input"
    /\ cl_hybrid' = is_blocked(cl_content, cl_status)
    /\ cl_scraper' = is_cloudflare_block(SResp(cl_content, cl_status, cl_headers))
    /\ cl_pc' = "classified"
    /\ UNCHANGED <<cl_content, cl_status, cl_headers, hfVars, rtVars, crawlVars, rlVars,
                   fsVars, extVars>>

ClassifyNext == Classify

ClassifySpec == ClassifyInit /\ [][ClassifyNext]_vars

(***************************************************************************)
(* FetchSpec: one _fetch_with_retry call on a scraper built with any       *)
(* max_retries, with or without a HybridFetcher.                           *)
(***************************************************************************)
FetchInit ==
    /\ fetcher \in BOOLEAN
    /\ stats = [k \in StatKeys |-> 0]
    /\ self_max_retries \in 0..MaxRetriesArg
    /\ fpLast = NoFetchPage
    /\ HybridIdle
    /\ rt_max_retries = FetchMaxRetries
    /\ rt_exceptions = FetchRetryable
    /\ rt_on_retry = "none"
    /\ rt_pc = "running"
    /\ rt_attempt = 0
    /\ rt_calls = 0
    /\ rt_nfail = 0
    /\ rt_lastOutcome = NoOutcome
    /\ rt_sleeps = <<>>
    /\ rt_observed = <<>>
    /\ rt_result = NoOutcome
    /\ GeneratorIdle
    /\ LimiterIdle
    /\ ClassifyIdle
    /\ ExtIdle

\* One iteration of the decorator's loop around _fetch_page: the call, then
\* the return, the raise, or the sleep before the next iteration.
FetchWithRetry ==
    /\ rt_pc = "running"
    /\ \E light \in CrawlLight, browser \in CrawlBrowser, session \in CrawlSession :
         LET hasKey == "cloudflare_bypassed" \in DOMAIN stats
             f == FetchPage(fetcher, hasKey, cloudflare_detected, consecutive_failures,
                            playwright, use_playwright_fallback, light, browser, session)
             d == RetryDecision(rt_max_retries, rt_exceptions, rt_attempt, f.outcome)
         IN  /\ cloudflare_detected' = f.detected
             /\ consecutive_failures' = f.failures
             /\ playwright' = f.pw
             /\ stats' = IF f.bypassed
                         THEN [stats EXCEPT !["cloudflare_bypassed"] = @ + 1]
                         ELSE stats
             /\ fpLast' = FetchPageTrace(fetcher, hasKey, cloudflare_detected,
                                         consecutive_failures, playwright,
                                         use_playwright_fallback, light, browser)
             /\ rt_calls' = rt_calls + 1
             /\ rt_nfail' = IF f.outcome.kind = "raise" THEN rt_nfail + 1 ELSE rt_nfail
             /\ rt_lastOutcome' = f.outcome
             /\ \/ /\ d = "return"
                   /\ rt_pc' = "returned"
                   /\ rt_result' = f.outcome
                   /\ UNCHANGED <<rt_attempt, rt_sleeps>>
                \/ /\ d \in {"propagate", "reraise"}
                   /\ rt_pc' = "raised"
                   /\ rt_result' = f.outcome
                   /\ UNCHANGED <<rt_attempt, rt_sleeps>>
                \/ /\ d = "retry"
                   /\ rt_sleeps' = Append(rt_sleeps, rt_attempt)
                   /\ rt_attempt' = rt_attempt + 1
                   /\ UNCHANGED <<rt_pc, rt_result>>
    /\ UNCHANGED <<hfConfig, rt_max_retries, rt_exceptions, rt_on_retry, rt_observed,
                   fetcher, genVars, obsVars, rlVars, clVars, self_max_retries,
                   extVars>>

FetchNext == FetchWithRetry

FetchSpec == FetchInit /\ [][FetchNext]_vars

(***************************************************************************)
(* BackoffSpec: the sleeps of one wrapper call whose function keeps        *)
(* raising a retryable exception.                                          *)
(***************************************************************************)
BackoffInit ==
    /\ bo_max_retries \in 0..MaxRetriesArg
    /\ bo_base_delay \in 1..2
    /\ bo_max_delay \in 1..MaxBackoff
    /\ bo_exponential_base \in 1..2
    /\ bo_jitter \in BOOLEAN
    /\ bo_attempt = 0
    /\ bo_sleeps = <<>>
    /\ HybridIdle
    /\ RetryIdle
    /\ CrawlIdle
    /\ LimiterIdle
    /\ ClassifyIdle
    /\ FetchIdle
    /\ StatsIdle
    /\ PwFetchIdle
    /\ ResourcesIdle
    /\ BypassIdle
    /\ SideIdle

\* The function raised a retryable exception on an attempt that is not the
\* last: the delay is computed, jittered and slept.
BoRetry ==
    /\ bo_attempt < bo_max_retries
    /\ \E k \in RandomDraws :
         bo_sleeps' = Append(bo_sleeps,
                             SleepArg(BackoffDelay(bo_base_delay, bo_exponential_base,
                                                   bo_max_delay, bo_attempt),
                                      bo_jitter, k))
    /\ bo_attempt' = bo_attempt + 1
    /\ UNCHANGED <<bo_max_retries, bo_base_delay, bo_max_delay, bo_exponential_base,
                   bo_jitter, hfVars, rtVars, crawlVars, rlVars, clVars, fsVars, stVars,
                   pfVars, resVars, bpVars, sideVars>>

BackoffNext == BoRetry

BackoffSpec == BackoffInit /\ [][BackoffNext]_vars

(***************************************************************************)
(* PwFetchSpec: one PlaywrightFetcher.fetch call against a page that shows *)
(* anything at each read; every browser operation returns or raises.  The  *)
(* call is not suspended for ever between two of its steps.                *)
(***************************************************************************)
PwFetchInit ==
    /\ pf_pc = "start"
    /\ pf_response = None
    /\ pf_content = {}
    /\ pf_waited = 0
    /\ pf_reads = 0
    /\ pf_settles = 0
    /\ pf_result = NotInvoked
    /\ HybridIdle
    /\ RetryIdle
    /\ CrawlIdle
    /\ LimiterIdle
    /\ ClassifyIdle
    /\ FetchIdle
    /\ StatsIdle
    /\ BackoffIdle
    /\ ResourcesIdle
    /\ BypassIdle
    /\ SideIdle

pwFetchFrame == <<hfVars, rtVars, crawlVars, rlVars, clVars, fsVars, stVars, boVars, resVars,
                  bpVars, sideVars>>

\* _ensure_browser, _rate_limit, goto, the initial wait and the first read.
PfNavigate ==
    /\ pf_pc = "start"
    /\ \E response \in GotoResponses, content \in PageContents :
         /\ pf_response' = response
         /\ pf_content' = content
    /\ pf_waited' = 0
    /\ pf_pc' = "poll"
    /\ UNCHANGED <<pf_reads, pf_settles, pf_result, pwFetchFrame>>

\* One test of the while condition and, if it holds, one pass of the body.
PfPoll ==
    /\ pf_pc = "poll"
    /\ IF PollAgain(pf_waited, pf_content)
       THEN /\ pf_waited' = pf_waited + WaitInterval
            /\ \E content \in PageContents : pf_content' = content
            /\ pf_reads' = pf_reads + 1
            /\ UNCHANGED pf_pc
       ELSE /\ pf_pc' = "final"
            /\ UNCHANGED <<pf_waited, pf_content, pf_reads>>
    /\ UNCHANGED <<pf_response, pf_settles, pf_result, pwFetchFrame>>

\* The final wait, the last read and the return.
PfFinal ==
    /\ pf_pc = "final"
    /\ pf_settles' = pf_settles + 1
    /\ \E content \in PageContents :
         /\ pf_content' = content
         /\ pf_result' = Resp(content, StatusOf(pf_response))
    /\ pf_pc' = "returned"
    /\ UNCHANGED <<pf_response, pf_waited, pf_reads, pwFetchFrame>>

\* A browser operation raises: fetch logs the exception and re-raises it.
PfRaise ==
    /\ pf_pc \in {"start", "poll", "final"}
    /\ pf_pc' = "raised"
    /\ pf_result' = Raise("Exception")
    /\ UNCHANGED <<pf_response, pf_content, pf_waited, pf_reads, pf_settles, pwFetchFrame>>

PwFetchNext == PfNavigate \/ PfPoll \/ PfFinal \/ PfRaise

PwFetchSpec == PwFetchInit /\ [][PwFetchNext]_vars /\ WF_vars(PwFetchNext)

(***************************************************************************)
(* PwSpec: one PlaywrightFetcher; fetch calls (of which only               *)
(* _ensure_browser matters here) and close calls in any order.             *)
(***************************************************************************)
PwInit ==
    /\ pw_handles = NoHandles
    /\ res_all = {}
    /\ res_live = {}
    /\ pw_op = "init"
    /\ pw_touched = {}
    /\ pw_closes = 0
    /\ cs_session = 0
    /\ rs_session = 0
    /\ rs_pc = "unused"
    /\ rs_exit = "none"
    /\ HybridIdle
    /\ RetryIdle
    /\ CrawlIdle
    /\ LimiterIdle
    /\ ClassifyIdle
    /\ FetchIdle
    /\ StatsIdle
    /\ BackoffIdle
    /\ PwFetchIdle
    /\ BypassIdle
    /\ SideIdle

resFrame == <<rtVars, genVars, obsVars, stats, rlVars, clVars, fsVars, stVars, boVars, pfVars,
              bpVars, sideVars>>

\* fetch(): _ensure_browser, then the page is fetched or the call raises.
PwEnsure ==
    /\ Cardinality(res_all) + Len(InitSteps) <= MaxResources
    /\ \E failAt \in FailPoints :
         LET e == EnsureBrowser(pw_handles, res_all, res_live, failAt)
         IN  /\ pw_handles' = e.h
             /\ res_all' = e.all
             /\ res_live' = e.live
    /\ pw_op' = "ensure"
    /\ UNCHANGED <<pw_touched, pw_closes, rsVars, hfVars, fetcher, resFrame>>

\* close()
PwCloseCall ==
    /\ pw_closes < MaxCalls
    /\ LET c == PwClose(pw_handles, res_live)
       IN  /\ pw_handles' = c.h
           /\ res_live' = c.live
           /\ pw_touched' = c.touched
    /\ pw_op' = "close"
    /\ pw_closes' = pw_closes + 1
    /\ UNCHANGED <<res_all, rsVars, hfVars, fetcher, resFrame>>

PwNext == PwEnsure \/ PwCloseCall

PwSpec == PwInit /\ [][PwNext]_vars

(***************************************************************************)
(* RunSpec: main() - a scraper is built, pages are fetched, the run ends   *)
(* in one of its ways and the finally clause closes the scraper.           *)
(***************************************************************************)
RunInit ==
    /\ fetcher \in BOOLEAN
    /\ stats = InitialStats
    /\ HybridIdle
    /\ pw_handles = NoHandles
    /\ res_all = {<<"session", 1>>}
    /\ res_live = {<<"session", 1>>}
    /\ pw_op = "init"
    /\ pw_touched = {}
    /\ pw_closes = 0
    /\ cs_session = 0
    /\ rs_session = 1
    /\ rs_pc = "run"
    /\ rs_exit = "none"
    /\ RetryIdle
    /\ GeneratorIdle
    /\ LimiterIdle
    /\ ClassifyIdle
    /\ FetchIdle
    /\ StatsIdle
    /\ BackoffIdle
    /\ PwFetchIdle
    /\ BypassIdle
    /\ SideIdle

\* What the run is doing when Ctrl-C arrives ("none": it does not arrive).
InterruptPoints == {"none", "light", "browser"}

\* One _fetch_page call of the crawl: HybridFetcher.fetch with the resources
\* its backends start, then (not modelled further) the fallback session.  A
\* KeyboardInterrupt is caught by no handler below main().
RunFetch ==
    /\ rs_pc = "run"
    /\ fetcher
    /\ Cardinality(res_all) + Len(InitSteps) + 1 <= MaxResources
    /\ \E light \in CrawlLight, browser \in CrawlBrowser, failAt \in FailPoints,
          interrupt \in InterruptPoints :
         LET tryL == TryLight(cloudflare_detected)
             tryB == interrupt # "light"
                     /\ TryBrowser(cloudflare_detected, use_playwright_fallback, light)
             r    == HybridFetch(cloudflare_detected, consecutive_failures, playwright,
                                 use_playwright_fallback, light,
                                 IF failAt = "none" THEN browser ELSE Raise("Exception"))
             s    == IF tryL THEN EnsureSession(cs_session, res_all, res_live)
                     ELSE [sess |-> cs_session, all |-> res_all, live |-> res_live]
             e    == IF tryB THEN EnsureBrowser(pw_handles, s.all, s.live, failAt)
                     ELSE [h |-> pw_handles, all |-> s.all, live |-> s.live]
         IN  /\ interrupt = "light" => tryL
             /\ interrupt = "browser" => tryB
             /\ r.failures <= MaxFailures
             /\ cloudflare_detected' = IF interrupt = "light" THEN cloudflare_detected
                                       ELSE r.detected
             /\ consecutive_failures' = IF interrupt = "light" THEN consecutive_failures
                                        ELSE r.failures
             /\ playwright' = (playwright \/ tryB)
             /\ cs_session' = s.sess
             /\ pw_handles' = e.h
             /\ res_all' = e.all
             /\ res_live' = e.live
             /\ pw_op' = IF tryB THEN "ensure" ELSE pw_op
             /\ IF interrupt = "none"
                THEN UNCHANGED <<rs_pc, rs_exit>>
                ELSE rs_pc' = "exiting" /\ rs_exit' = "interrupt_in_fetch"
    /\ UNCHANGED <<hfConfig, pw_touched, pw_closes, rs_session, fetcher, resFrame>>

\* The run ends outside a fetch: the sequence is exhausted, the page limit is
\* reached, an exception reaches main(), or Ctrl-C arrives between two yields.
RunEnd ==
    /\ rs_pc = "run"
    /\ rs_pc' = "exiting"
    /\ \E way \in {"exhausted", "limit", "error", "interrupt_between_yields"} :
         rs_exit' = way
    /\ UNCHANGED <<pwVars, cs_session, rs_session, hfVars, fetcher, resFrame>>

\* finally: scraper.close() - the session, then HybridFetcher.close (the
\* cloudscraper session, then PlaywrightFetcher.close) and self._fetcher = None.
RunFinally ==
    /\ rs_pc = "exiting"
    /\ IF ClosesOnExit(rs_exit)
       THEN /\ LET c == IF fetcher /\ playwright THEN PwClose(pw_handles, res_live)
                        ELSE [h |-> pw_handles, live |-> res_live, touched |-> pw_touched]
                   closedSessions ==
                       {<<"session", rs_session>>}
                       \cup (IF fetcher THEN {<<"session", cs_session>>} ELSE {})
               IN  /\ pw_handles' = c.h
                   /\ pw_touched' = c.touched
                   /\ res_live' = c.live \ closedSessions
                   /\ pw_closes' = IF fetcher /\ playwright THEN pw_closes + 1
                                   ELSE pw_closes
                   /\ pw_op' = IF fetcher /\ playwright THEN "close" ELSE pw_op
            /\ cs_session' = IF fetcher THEN 0 ELSE cs_session
            /\ fetcher' = FALSE
       ELSE UNCHANGED <<pw_handles, pw_touched, res_live, pw_closes, pw_op, cs_session,
                        fetcher>>
    /\ rs_pc' = "finished"
    /\ UNCHANGED <<res_all, rs_session, rs_exit, hfVars, resFrame>>

RunNext == RunFetch \/ RunEnd \/ RunFinally

RunSpec == RunInit /\ [][RunNext]_vars

(***************************************************************************)
(* EscalationSpec: any sequence of fetches by one client - a scraper built *)
(* with or without bypass_cloudflare, or code that built a HybridFetcher   *)
(* with or without the Playwright fallback.                                *)
(***************************************************************************)
EscalationInit ==
    /\ bp_client \in {"scraper", "direct"}
    /\ fetcher \in BOOLEAN
    /\ bp_client = "direct" => ~fetcher
    /\ use_playwright_fallback \in BOOLEAN
    /\ bp_client = "scraper" => use_playwright_fallback
    /\ cloudflare_detected = FALSE
    /\ consecutive_failures = 0
    /\ playwright = FALSE
    /\ hfCalls = 0
    /\ hfLast = NoCall
    /\ hfPatternBefore = FALSE
    /\ stats = InitialStats
    /\ RetryIdle
    /\ GeneratorIdle
    /\ LimiterIdle
    /\ ClassifyIdle
    /\ FetchIdle
    /\ StatsIdle
    /\ BackoffIdle
    /\ PwFetchIdle
    /\ ResourcesIdle
    /\ SideIdle

\* HybridFetcher.fetch called by the code that built the fetcher.
DirectFetch == bp_client = "direct" /\ HFetch

\* One _fetch_page call of the scraper.
ScraperFetch ==
    /\ bp_client = "scraper"
    /\ hfCalls < MaxCalls
    /\ \E light \in CrawlLight, browser \in CrawlBrowser, session \in CrawlSession :
         LET hasKey == "cloudflare_bypassed" \in DOMAIN stats
             f == FetchPage(fetcher, hasKey, cloudflare_detected, consecutive_failures,
                            playwright, use_playwright_fallback, light, browser, session)
         IN  /\ cloudflare_detected' = f.detected
             /\ consecutive_failures' = f.failures
             /\ playwright' = f.pw
             /\ stats' = IF f.bypassed
                         THEN [stats EXCEPT !["cloudflare_bypassed"] = @ + 1]
                         ELSE stats
             /\ fpLast' = FetchPageTrace(fetcher, hasKey, cloudflare_detected,
                                         consecutive_failures, playwright,
                                         use_playwright_fallback, light, browser)
    /\ hfCalls' = hfCalls + 1
    /\ UNCHANGED <<use_playwright_fallback, hfLast, hfPatternBefore, rtVars, fetcher,
                   genVars, obsVars, rlVars, clVars, self_max_retries, extVars>>

EscalationNext == DirectFetch \/ ScraperFetch

EscalationSpec == EscalationInit /\ [][EscalationNext]_vars

(***************************************************************************)
(* TermSpec: the control flow of one scrape_projects generator whose       *)
(* consumer keeps asking and whose backend calls all return or raise.      *)
(* pages_scraped and current_page stop growing at PageCap, above every     *)
(* max_pages tried: the loop compares pages_scraped with max_pages only.   *)
(***************************************************************************)
PageCap == MaxPagesArg + 1

Capped(n) == IF n < PageCap THEN n + 1 ELSE n

TermInit ==
    /\ fetcher = FALSE
    /\ stats = InitialStats
    /\ max_pages \in {None} \cup (0..MaxPagesArg)
    /\ include_details \in BOOLEAN
    /\ start_page \in StartPages
    /\ current_page = start_page
    /\ pages_scraped = 0
    /\ next_url = NoUrl
    /\ projects = <<>>
    /\ idx = 0
    /\ pc = "loop"
    /\ fetch_attempt = 0
    /\ nListing = 0
    /\ fetchedUrls = {}
    /\ nFetches = 0
    /\ nYieldedPage = 0
    /\ nYieldPages = 0
    /\ nYielded = 0
    /\ lastYield = NoRecord
    /\ lastFetch = NoFetch
    /\ ended = "no"
    /\ HybridIdle
    /\ RetryIdle
    /\ AuxIdle

termFrame == <<hfVars, rtVars, auxVars, fetcher, max_pages, include_details, start_page,
               stats, fetch_attempt, nListing, fetchedUrls,
               nFetches, nYieldedPage, nYieldPages, nYielded, lastYield, lastFetch>>

\* Top of the while loop: the page limit check.
TmLoopHead ==
    /\ pc = "loop"
    /\ IF LimitReached(max_pages, pages_scraped)
       THEN pc' = "done" /\ ended' = "limit"
       ELSE pc' = "fetch_listing" /\ UNCHANGED ended
    /\ UNCHANGED <<current_page, pages_scraped, next_url, projects, idx, termFrame>>

\* scrape_listing_page returns the records and the next-page pointer, or raises.
TmListing ==
    /\ pc = "fetch_listing"
    /\ \/ \E items \in ItemLists, nxt \in NextPointers :
            /\ projects' = items
            /\ next_url' = nxt
            /\ pc' = AfterListing(items)
            /\ ended' = IF AfterListing(items) = "done" THEN "empty" ELSE ended
       \/ \E exc \in {"NetworkError", "CloudflareBlockError", "RequestException"} :
            /\ pc' = ListingFailure(exc).pc
            /\ ended' = ListingFailure(exc).ended
            /\ UNCHANGED <<projects, next_url>>
    /\ idx' = 0
    /\ UNCHANGED <<current_page, pages_scraped, termFrame>>

\* The for loop yields the next record (after its detail fetch, if any) and
\* is resumed.
TmYield ==
    /\ pc = "items"
    /\ idx < Len(projects)
    /\ idx' = idx + 1
    /\ UNCHANGED <<current_page, pages_scraped, next_url, projects, pc, ended, termFrame>>

\* The for loop is exhausted: the counters, then the next-page test.
TmAdvance ==
    /\ pc = "items"
    /\ idx = Len(projects)
    /\ pages_scraped' = Capped(pages_scraped)
    /\ current_page' = Capped(current_page)
    /\ IF next_url = NoUrl
       THEN pc' = "done" /\ ended' = "no_next"
       ELSE pc' = "loop" /\ UNCHANGED ended
    /\ UNCHANGED <<next_url, projects, idx, termFrame>>

TermNext == TmLoopHead \/ TmListing \/ TmYield \/ TmAdvance

TermSpec == TermInit /\ [][TermNext]_vars /\ WF_vars(TermNext)

(***************************************************************************)
(* StatsSpec: one scraper's statistics; scrape operations count,           *)
(* get_stats hands dicts to a caller that writes to them, reset_stats.     *)
(***************************************************************************)
StatsInit ==
    /\ fetcher \in BOOLEAN
    /\ stats = InitialStats
    /\ st_heap = [i \in 1..MaxObjects |-> IF i = 1 THEN InitialStats ELSE NoObj]
    /\ st_self = 1
    /\ st_held = {}
    /\ st_op = "init"
    /\ HybridIdle
    /\ RetryIdle
    /\ GeneratorIdle
    /\ LimiterIdle
    /\ ClassifyIdle
    /\ FetchIdle
    /\ BackoffIdle
    /\ PwFetchIdle
    /\ ResourcesIdle
    /\ BypassIdle
    /\ SideIdle

statsFrame == <<hfVars, rtVars, fetcher, genVars, obsVars, rlVars, clVars, fsVars, boVars,
                pfVars, resVars, bpVars, sideVars>>

\* A scrape operation counts one page, record, detail, error or bypass.
StCount ==
    /\ \E k \in StatKeys :
         /\ k = "cloudflare_bypassed" => fetcher
         /\ Total(st_heap[st_self]) < MaxCount
         /\ st_heap' = [st_heap EXCEPT ![st_self] = Increment(@, k)]
    /\ stats' = st_heap'[st_self]
    /\ st_op' = "scrape"
    /\ UNCHANGED <<st_self, st_held, statsFrame>>

\* get_stats()
StGet ==
    /\ HasFree(st_heap)
    /\ LET r == get_stats(st_heap, st_self)
       IN  /\ st_heap' = r.heap
           /\ st_held' = st_held \cup {r.ref}
    /\ stats' = st_heap'[st_self]
    /\ st_op' = "get_stats"
    /\ UNCHANGED <<st_self, statsFrame>>

\* The caller changes a dict that get_stats returned.
StCallerWrite ==
    /\ \E r \in st_held : \E d \in CallerWrites(st_heap[r]) :
         st_heap' = [st_heap EXCEPT ![r] = d]
    /\ stats' = st_heap'[st_self]
    /\ st_op' = "caller_write"
    /\ UNCHANGED <<st_self, st_held, statsFrame>>

\* The caller lets go of a dict that get_stats returned.
StCallerDrop ==
    /\ \E r \in st_held :
         /\ st_held' = st_held \ {r}
         /\ st_heap' = IF r = st_self THEN st_heap ELSE [st_heap EXCEPT ![r] = NoObj]
    /\ st_op' = "caller_drop"
    /\ UNCHANGED <<stats, st_self, statsFrame>>

\* reset_stats(): self.stats is bound to a new dict; the old one lives on
\* only while somebody else holds it.
StReset ==
    /\ IF st_self \in st_held
       THEN /\ HasFree(st_heap)
            /\ st_self' = Alloc(st_heap)
            /\ st_heap' = [st_heap EXCEPT ![Alloc(st_heap)] = ResetStatsDict]
       ELSE /\ st_self' = st_self
            /\ st_heap' = [st_heap EXCEPT ![st_self] = ResetStatsDict]
    /\ stats' = st_heap'[st_self']
    /\ st_op' = "reset_stats"
    /\ UNCHANGED <<st_held, statsFrame>>

StatsNext == StCount \/ StGet \/ StCallerWrite \/ StCallerDrop \/ StReset

StatsSpec == StatsInit /\ [][StatsNext]_vars

(***************************************************************************)
(* Spec: one ADBProjectScraper (fetch_strategy 'hybrid') and one           *)
(* scrape_projects generator whose consumer keeps asking for records.      *)
(***************************************************************************)
Init ==
    /\ RetryIdle
    /\ HybridIdle
    /\ AuxIdle
    /\ fetcher \in BOOLEAN
    /\ stats = [k \in StatKeys |-> 0]
    /\ max_pages \in {None} \cup (0..MaxPagesArg)
    /\ include_details \in BOOLEAN
    /\ start_page \in StartPages
    /\ current_page = start_page
    /\ pages_scraped = 0
    /\ next_url = NoUrl
    /\ projects = <<>>
    /\ idx = 0
    /\ pc = "loop"
    /\ fetch_attempt = 0
    /\ nListing = 0
    /\ fetchedUrls = {}
    /\ nFetches = 0
    /\ nYieldedPage = 0
    /\ nYieldPages = 0
    /\ nYielded = 0
    /\ lastYield = NoRecord
    /\ lastFetch = NoFetch
    /\ ended = "no"

args == <<fetcher, max_pages, include_details, start_page>>

\* The generator suspends at a yield with this record.
Yield(record) ==
    /\ pc' = "yield"
    /\ lastYield' = record
    /\ nYieldedPage' = nYieldedPage + 1
    /\ nYieldPages' = IF nYieldedPage = 0 THEN nYieldPages + 1 ELSE nYieldPages
    /\ nYielded' = nYielded + 1

\* Top of the while loop: the page limit check, then the URL of the page and
\* the call of scrape_listing_page.
LoopHead ==
    /\ pc = "loop"
    /\ IF LimitReached(max_pages, pages_scraped)
       THEN /\ pc' = "done"
            /\ ended' = "limit"
            /\ UNCHANGED <<fetch_attempt, nListing, fetchedUrls, nFetches, lastFetch>>
       ELSE /\ nFetches < MaxFetches
            /\ nFetches' = nFetches + 1
            /\ nListing' = nListing + 1
            /\ fetchedUrls' = fetchedUrls \cup {url}
            /\ pc' = "fetch_listing"
            /\ fetch_attempt' = 0
            /\ lastFetch' = [NoFetch EXCEPT !.target = "listing"]
            /\ UNCHANGED ended
    /\ UNCHANGED <<hfVars, rtVars, auxVars, args, stats, current_page, pages_scraped, next_url,
                   projects, idx, nYieldedPage, nYieldPages, nYielded, lastYield>>

\* One iteration of _fetch_with_retry's loop: a _fetch_page call, then the
\* return to the caller, the retry, or the exception and what
\* scrape_listing_page / scrape_project_detail / scrape_projects do with it.
FetchAttempt ==
    /\ pc \in {"fetch_listing", "fetch_detail"}
    /\ \E f \in {FetchPage(fetcher, "cloudflare_bypassed" \in DOMAIN stats,
                           cloudflare_detected, consecutive_failures, playwright,
                           use_playwright_fallback, light, browser, session) :
                    light \in CrawlLight, browser \in CrawlBrowser,
                    session \in CrawlSession} :
         LET d  == RetryDecision(FetchMaxRetries, FetchRetryable, fetch_attempt,
                                 f.outcome)
             s1 == IF f.bypassed
                   THEN [stats EXCEPT !["cloudflare_bypassed"] = @ + 1]
                   ELSE stats
         IN  /\ f.failures <= MaxFailures
             /\ cloudflare_detected' = f.detected
             /\ consecutive_failures' = f.failures
             /\ playwright' = f.pw
             /\ \/ /\ d = "retry"
                   /\ fetch_attempt' = fetch_attempt + 1
                   /\ stats' = s1
                   /\ UNCHANGED <<pc, ended, nYieldedPage, nYieldPages, nYielded, lastYield,
                                  lastFetch>>
                \/ /\ d = "return"
                   /\ pc' = IF pc = "fetch_listing" THEN "parse_listing"
                            ELSE "parse_detail"
                   /\ stats' = s1
                   /\ lastFetch' = FetchEnd(lastFetch.target, f.outcome, fetch_attempt)
                   /\ fetch_attempt' = 0
                   /\ UNCHANGED <<ended, nYieldedPage, nYieldPages, nYielded, lastYield>>
                \/ /\ d \in {"propagate", "reraise"}
                   /\ pc = "fetch_listing"
                   /\ LET lf == ListingFailure(f.outcome.exc)
                      IN  /\ stats' = [s1 EXCEPT !["errors"] = @ + lf.errors]
                          /\ pc' = lf.pc
                          /\ ended' = lf.ended
                   /\ lastFetch' = FetchEnd(lastFetch.target, f.outcome, fetch_attempt)
                   /\ fetch_attempt' = 0
                   /\ UNCHANGED <<nYieldedPage, nYieldPages, nYielded, lastYield>>
                \/ /\ d \in {"propagate", "reraise"}
                   /\ pc = "fetch_detail"
                   /\ LET df == DetailFailure(f.outcome.exc, projects[idx])
                      IN  /\ stats' = [s1 EXCEPT !["errors"] = @ + df.errors]
                          /\ IF df.pc = "yield"
                             THEN Yield(df.record) /\ UNCHANGED ended
                             ELSE /\ pc' = df.pc
                                  /\ ended' = "raised"
                                  /\ UNCHANGED <<nYieldedPage, nYieldPages, nYielded, lastYield>>
                   /\ lastFetch' = FetchEnd(lastFetch.target, f.outcome, fetch_attempt)
                   /\ fetch_attempt' = 0
    /\ UNCHANGED <<hfConfig, rtVars, auxVars, args, current_page, pages_scraped, next_url,
                   projects, idx, nListing, fetchedUrls,
                   nFetches>>

\* scrape_listing_page after the fetch: the parser's records and next-page
\* pointer, the counters, and the empty-page check of scrape_projects.
ParseListing ==
    /\ pc = "parse_listing"
    /\ \E items \in ItemLists, nxt \in NextPointers :
         /\ projects' = items
         /\ next_url' = nxt
         /\ stats' = ListingCounters(stats, items)
         /\ pc' = AfterListing(items)
         /\ ended' = IF AfterListing(items) = "done" THEN "empty" ELSE ended
    /\ idx' = 0
    /\ nYieldedPage' = 0
    /\ lastFetch' = NoFetch
    /\ UNCHANGED <<hfVars, rtVars, auxVars, args, current_page, pages_scraped, fetch_attempt,
                   nListing, fetchedUrls, nFetches, nYieldPages, nYielded, lastYield>>

\* The for loop takes the next project: it is yielded, or its detail page is
\* fetched first.
TakeItem ==
    /\ pc = "items"
    /\ idx < Len(projects)
    /\ idx' = idx + 1
    /\ IF include_details
       THEN /\ nFetches < MaxFetches
            /\ nFetches' = nFetches + 1
            /\ pc' = "fetch_detail"
            /\ fetch_attempt' = 0
            /\ lastFetch' = [NoFetch EXCEPT !.target = "detail"]
            /\ UNCHANGED <<nYieldedPage, nYieldPages, nYielded, lastYield>>
       ELSE /\ Yield(projects[idx + 1])
            /\ lastFetch' = NoFetch
            /\ UNCHANGED <<fetch_attempt, nFetches>>
    /\ UNCHANGED <<hfVars, rtVars, auxVars, args, stats, current_page, pages_scraped, next_url,
                   projects, nListing, fetchedUrls, ended>>

\* scrape_project_detail after the fetch: the parsed detail is yielded; an
\* exception of the parser is handled as DetailFailure says.
ParseDetail ==
    /\ pc = "parse_detail"
    /\ \E parsed \in BOOLEAN :
         IF parsed
         THEN /\ stats' = [stats EXCEPT !["details_fetched"] = @ + 1]
              /\ Yield(parse_detail(projects[idx]))
              /\ UNCHANGED ended
         ELSE LET df == DetailFailure("Exception", projects[idx])
              IN  /\ stats' = [stats EXCEPT !["errors"] = @ + df.errors]
                  /\ IF df.pc = "yield"
                     THEN Yield(df.record) /\ UNCHANGED ended
                     ELSE /\ pc' = df.pc
                          /\ ended' = "raised"
                          /\ UNCHANGED <<nYieldedPage, nYieldPages, nYielded, lastYield>>
    /\ UNCHANGED <<hfVars, rtVars, auxVars, args, current_page, pages_scraped, next_url,
                   projects, idx, fetch_attempt, nListing, fetchedUrls,
                   nFetches, lastFetch>>

\* The consumer asks for the next record: the generator resumes after the yield.
Resume ==
    /\ pc = "yield"
    /\ pc' = "items"
    /\ lastYield' = NoRecord
    /\ lastFetch' = NoFetch
    /\ UNCHANGED <<hfVars, rtVars, auxVars, args, stats, current_page, pages_scraped, next_url,
                   projects, idx, fetch_attempt, nListing, fetchedUrls, nFetches,
                   nYieldedPage,
                   nYieldPages, nYielded, ended>>

\* The for loop is exhausted: the page is counted and the loop goes on with
\* the next-page pointer, or ends without one.
Advance ==
    /\ pc = "items"
    /\ idx = Len(projects)
    /\ pages_scraped' = pages_scraped + 1
    /\ current_page' = current_page + 1
    /\ IF next_url = NoUrl
       THEN pc' = "done" /\ ended' = "no_next"
       ELSE pc' = "loop" /\ UNCHANGED ended
    /\ UNCHANGED <<hfVars, rtVars, auxVars, args, stats, next_url, projects, idx, fetch_attempt,
                   nListing, fetchedUrls, nFetches, nYieldedPage, nYieldPages, nYielded, lastYield,
                   lastFetch>>

Next ==
    \/ LoopHead
    \/ FetchAttempt
    \/ ParseListing
    \/ TakeItem
    \/ ParseDetail
    \/ Resume
    \/ Advance

Spec == Init /\ [][Next]_vars

(***************************************************************************)
(* InteractiveSpec: one InteractiveScraper.scrape call on a new instance.  *)
(* Each record of a page is appended to all_projects once, with or without *)
(* its detail page (a failing detail fetch is caught and the listing       *)
(* record is appended instead).                                            *)
(***************************************************************************)
MaxInteractivePages == 3

\* _init_browser: the four calls of _ensure_browser, without a test before.
InitBrowser(all, live, failAt) == EnsureBrowser(NoHandles, all, live, failAt)

\* InteractiveScraper.close: close/stop on every handle that is set.
InteractiveClose(h, live) == live \ HandleSet(h)

\* How a navigation ends: the page is there, a challenge was shown and
\* _wait_for_cloudflare returned True or False, or a page call raised.
Arrivals == {"page", "solved", "timeout", "raise"}

\* range(max_pages) of the while loop.
MorePages(scraped, maxp) == scraped < maxp

InteractiveInit ==
    /\ is_pc = "init"
    /\ is_max_pages \in 0..MaxInteractivePages
    /\ is_pages_scraped = 0
    /\ is_parsed = 0
    /\ is_collected = 0
    /\ is_next_url = FALSE
    /\ is_saved = None
    /\ is_result = None
    /\ is_timed_out = FALSE
    /\ HybridIdle
    /\ RetryIdle
    /\ CrawlIdle
    /\ LimiterIdle
    /\ ClassifyIdle
    /\ FetchIdle
    /\ StatsIdle
    /\ BackoffIdle
    /\ PwFetchIdle
    /\ ResourcesIdle
    /\ BypassIdle
    /\ PaceIdle
    /\ TwinIdle

interactiveFrame == <<hfVars, rtVars, crawlVars, rlVars, clVars, fsVars, stVars, boVars, pfVars,
                      pw_op, pw_touched, pw_closes, rsVars, bpVars, paVars, twVars>>

\* The finally clause: close(), then the call is over.
IsLeave(how) ==
    /\ res_live' = InteractiveClose(pw_handles, res_live)
    /\ is_pc' = how
    /\ UNCHANGED <<pw_handles, res_all>>

\* self._init_browser(), before the try block.
IsInitBrowser ==
    /\ is_pc = "init"
    /\ \E failAt \in FailPoints :
         LET e == InitBrowser(res_all, res_live, failAt)
         IN  /\ pw_handles' = e.h
             /\ res_all' = e.all
             /\ res_live' = e.live
             /\ is_pc' = IF failAt = "none" THEN "first_page" ELSE "raised"
    /\ UNCHANGED <<is_max_pages, is_pages_scraped, is_parsed, is_collected, is_next_url,
                   is_saved, is_result, is_timed_out, interactiveFrame>>

\* The navigation to the projects page and the first challenge check.
IsFirstPage ==
    /\ is_pc = "first_page"
    /\ \E a \in Arrivals :
         CASE a = "timeout" -> is_result' = is_collected /\ IsLeave("returned")
           [] a = "raise"   -> UNCHANGED is_result /\ IsLeave("raised")
           [] OTHER         -> /\ is_pc' = "loop"
                               /\ UNCHANGED <<is_result, pw_handles, res_all, res_live>>
    /\ UNCHANGED <<is_max_pages, is_pages_scraped, is_parsed, is_collected, is_next_url,
                   is_saved, is_timed_out, interactiveFrame>>

\* One iteration of the while loop up to the next-page decision.
IsPage ==
    /\ is_pc = "loop"
    /\ IF ~MorePages(is_pages_scraped, is_max_pages)
       THEN /\ is_pc' = "save"
            /\ UNCHANGED <<is_pages_scraped, is_parsed, is_collected, is_next_url,
                           pw_handles, res_all, res_live>>
       ELSE \/ /\ IsLeave("raised")
               /\ UNCHANGED <<is_pages_scraped, is_parsed, is_collected, is_next_url>>
            \/ \E n \in 0..MaxItems, nxt \in BOOLEAN :
                 /\ is_parsed' = is_parsed + 1
                 /\ is_next_url' = nxt
                 /\ is_collected' = is_collected + n
                 /\ is_pages_scraped' = IF n = 0 THEN is_pages_scraped
                                        ELSE is_pages_scraped + 1
                 /\ is_pc' = IF n > 0 /\ nxt /\ MorePages(is_pages_scraped + 1, is_max_pages)
                             THEN "next_page" ELSE "save"
                 /\ UNCHANGED <<pw_handles, res_all, res_live>>
    /\ UNCHANGED <<is_max_pages, is_saved, is_result, is_timed_out, interactiveFrame>>

\* The navigation to next_url and the challenge check after it.
IsNextPage ==
    /\ is_pc = "next_page"
    /\ \E a \in Arrivals :
         CASE a = "timeout" -> /\ is_timed_out' = TRUE
                               /\ is_pc' = "save"
                               /\ UNCHANGED <<pw_handles, res_all, res_live>>
           [] a = "raise"   -> UNCHANGED is_timed_out /\ IsLeave("raised")
           [] OTHER         -> /\ is_pc' = "loop"
                               /\ UNCHANGED <<is_timed_out, pw_handles, res_all, res_live>>
    /\ UNCHANGED <<is_max_pages, is_pages_scraped, is_parsed, is_collected, is_next_url,
                   is_saved, is_result, interactiveFrame>>

\* After the loop: the records are written if there are any, and returned.
IsSave ==
    /\ is_pc = "save"
    /\ \/ /\ is_saved' = IF is_collected > 0 THEN is_collected ELSE is_saved
          /\ is_result' = is_collected
          /\ IsLeave("returned")
       \/ /\ is_collected > 0
          /\ IsLeave("raised")
          /\ UNCHANGED <<is_saved, is_result>>
    /\ UNCHANGED <<is_max_pages, is_pages_scraped, is_parsed, is_collected, is_next_url,
                   is_timed_out, interactiveFrame>>

InteractiveNext == IsInitBrowser \/ IsFirstPage \/ IsPage \/ IsNextPage \/ IsSave

InteractiveSpec == InteractiveInit /\ [][InteractiveNext]_vars

(***************************************************************************)
(* PaceSpec: the _fetch_page calls of one scraper with the times at which  *)
(* its requests start.  Time is in whole seconds; a time.sleep takes the   *)
(* time asked for.                                                         *)
(***************************************************************************)
\* time.time() when the scraper is built: later than any delay after the 0
\* that the fetchers' _last_request starts at.
Epoch == MaxDelay + 1

\* The waits of PlaywrightFetcher.fetch after goto: 3000 ms and 2000 ms.
BrowserSettle == 5

\* random.uniform(0.1, 0.5) and random.uniform(0.2, 1.0), as whole seconds.
FetcherJitter == 1

\* _rate_limit of CloudscraperFetcher and PlaywrightFetcher: the time slept.
FetcherSleep(last, t, delay) ==
    IF t - last < delay THEN delay - (t - last) + FetcherJitter ELSE 0

\* CloudscraperFetcher.fetch: _rate_limit, then one session.get whose response
\* is returned and whose exception is re-raised as it is.
CloudscraperFetch(last, t, delay, answer) ==
    [start |-> t + FetcherSleep(last, t, delay), requests |-> 1, result |-> answer]

\* The time a request takes until its backend call is over.
RequestTimes == {0, 1}

BrowserTime(answer) == IF answer.kind = "resp" THEN BrowserSettle ELSE 0

\* One _fetch_page call that begins at t0: the start times of the requests it
\* sends, in order, the pacers afterwards and the time it ends.
PacedFetchPage(t0, csLast, pwLast, rlLast, delay, rlDelay, tr, dl, ds) ==
    LET useL == tr.light # NotInvoked
        cf   == CloudscraperFetch(csLast, t0, delay, tr.light)
        t1   == IF useL THEN cf.start + dl ELSE t0
        useB == tr.browser # NotInvoked
        sB   == t1 + FetcherSleep(pwLast, t1, delay)
        t2   == IF useB THEN sB + BrowserTime(tr.browser) ELSE t1
        sS   == t2 + SleepTime(rlLast, t2, rlDelay)
        t3   == IF tr.session THEN sS + ds ELSE t2
    IN  [starts |-> (IF useL THEN <<cf.start>> ELSE <<>>)
                    \o (IF useB THEN <<sB>> ELSE <<>>)
                    \o (IF tr.session THEN <<sS>> ELSE <<>>),
         cs     |-> IF useL THEN cf.start ELSE csLast,
         pw     |-> IF useB THEN sB ELSE pwLast,
         rl     |-> IF tr.session THEN sS ELSE rlLast,
         light  |-> IF useL THEN cf ELSE NotInvoked,
         end    |-> t3]

\* The last start and the least gap after the requests in starts.
RECURSIVE GapFold(_, _, _)
GapFold(last, least, starts) ==
    IF starts = <<>> THEN [last |-> last, least |-> least]
    ELSE LET gap == starts[1] - last
             m   == IF last = None THEN least
                    ELSE IF least = None THEN gap
                    ELSE Min(least, gap)
         IN  GapFold(starts[1], m, Tail(starts))

PaceLight ==
    {Resp({}, 200), Resp(Challenge, 403), Resp({}, 404), Raise("Timeout"),
     Raise("ConnectionError")}

PaceSession == {SResp({}, 200, {}), SRaise("Timeout")}

PaceInit ==
    /\ fetcher \in BOOLEAN
    /\ stats = InitialStats
    /\ use_playwright_fallback = TRUE
    /\ cloudflare_detected = FALSE
    /\ consecutive_failures = 0
    /\ playwright = FALSE
    /\ hfCalls = 0
    /\ hfLast = NoCall
    /\ hfPatternBefore = FALSE
    /\ min_delay \in 1..MaxDelay
    /\ max_delay \in min_delay..MaxDelay
    /\ last_request_time = None
    /\ now = Epoch
    /\ rl_prev = None
    /\ rl_slept = 0
    /\ rl_op = "none"
    /\ rl_reset_seen = FALSE
    /\ PaceIdle
    /\ RetryIdle
    /\ GeneratorIdle
    /\ ClassifyIdle
    /\ FetchIdle
    /\ StatsIdle
    /\ BackoffIdle
    /\ PwFetchIdle
    /\ ResourcesIdle
    /\ BypassIdle
    /\ InteractiveIdle
    /\ TwinIdle

paceFrame == <<use_playwright_fallback, hfLast, hfPatternBefore, rtVars, fetcher, genVars,
               obsVars, min_delay, max_delay, rl_prev, rl_slept, rl_op, rl_reset_seen, clVars,
               self_max_retries, stVars, boVars, pfVars, resVars, bpVars, isVars, twVars>>

\* Time passes between two _fetch_page calls.
PaTick ==
    /\ now < Epoch + MaxClock
    /\ now' = now + 1
    /\ UNCHANGED <<cloudflare_detected, consecutive_failures, playwright, hfCalls, stats,
                   last_request_time, fpLast, paVars, paceFrame>>

\* One _fetch_page call.
PaFetchPage ==
    /\ hfCalls < MaxCalls
    /\ \E light \in PaceLight, browser \in CrawlBrowser, session \in PaceSession,
          rlDelay \in uniform(min_delay, max_delay), dl \in RequestTimes,
          ds \in RequestTimes :
         LET hasKey == "cloudflare_bypassed" \in DOMAIN stats
             f  == FetchPage(fetcher, hasKey, cloudflare_detected, consecutive_failures,
                             playwright, use_playwright_fallback, light, browser, session)
             tr == FetchPageTrace(fetcher, hasKey, cloudflare_detected,
                                  consecutive_failures, playwright,
                                  use_playwright_fallback, light, browser)
             p  == PacedFetchPage(now, pa_cs_last, pa_pw_last, last_request_time,
                                  min_delay, rlDelay, tr, dl, ds)
             g  == GapFold(pa_last_start, pa_min_gap, p.starts)
         IN  /\ p.end <= Epoch + MaxClock
             /\ f.failures <= MaxFailures
             /\ cloudflare_detected' = f.detected
             /\ consecutive_failures' = f.failures
             /\ playwright' = f.pw
             /\ stats' = IF f.bypassed
                         THEN [stats EXCEPT !["cloudflare_bypassed"] = @ + 1]
                         ELSE stats
             /\ fpLast' = tr
             /\ now' = p.end
             /\ pa_cs_last' = p.cs
             /\ pa_pw_last' = p.pw
             /\ last_request_time' = p.rl
             /\ pa_light' = p.light
             /\ pa_last_start' = g.last
             /\ pa_min_gap' = g.least
    /\ hfCalls' = hfCalls + 1
    /\ UNCHANGED paceFrame

PaceNext == PaTick \/ PaFetchPage

PaceSpec == PaceInit /\ [][PaceNext]_vars

(***************************************************************************)
(* TwinSpec: two scrapers built alike whose backends give the same answers *)
(* call by call; reset_stats is called on the second one only.             *)
(***************************************************************************)
\* self.stats of the second scraper, as far as _fetch_page reads it.
TwinStats(reset) == IF reset THEN ResetStatsDict ELSE InitialStats

TwinInit ==
    /\ fetcher \in BOOLEAN
    /\ stats = InitialStats
    /\ use_playwright_fallback = TRUE
    /\ cloudflare_detected = FALSE
    /\ consecutive_failures = 0
    /\ playwright = FALSE
    /\ hfCalls = 0
    /\ hfLast = NoCall
    /\ hfPatternBefore = FALSE
    /\ TwinIdle
    /\ RetryIdle
    /\ GeneratorIdle
    /\ LimiterIdle
    /\ ClassifyIdle
    /\ FetchIdle
    /\ StatsIdle
    /\ BackoffIdle
    /\ PwFetchIdle
    /\ ResourcesIdle
    /\ BypassIdle
    /\ InteractiveIdle
    /\ PaceIdle

twinFrame == <<use_playwright_fallback, hfLast, hfPatternBefore, rtVars, fetcher, genVars,
               obsVars, rlVars, clVars, self_max_retries, stVars, boVars, pfVars, resVars,
               bpVars, isVars, paVars>>

\* reset_stats() on the second scraper.
TwReset ==
    /\ ~tw_reset
    /\ tw_reset' = TRUE
    /\ UNCHANGED <<cloudflare_detected, consecutive_failures, playwright, hfCalls, stats,
                   fpLast, tw_state, tw_trace, tw_outcome, tw_ref_outcome, twinFrame>>

\* _fetch_page(url) on both scrapers.
TwFetchPage ==
    /\ hfCalls < MaxCalls
    /\ \E light \in CrawlLight, browser \in CrawlBrowser, session \in CrawlSession :
         LET hasKey == "cloudflare_bypassed" \in DOMAIN stats
             f  == FetchPage(fetcher, hasKey, cloudflare_detected, consecutive_failures,
                             playwright, use_playwright_fallback, light, browser, session)
             k2 == "cloudflare_bypassed" \in DOMAIN TwinStats(tw_reset)
             f2 == FetchPage(fetcher, k2, tw_state.detected, tw_state.failures,
                             tw_state.pw, use_playwright_fallback, light, browser, session)
         IN  /\ f.failures <= MaxFailures
             /\ cloudflare_detected' = f.detected
             /\ consecutive_failures' = f.failures
             /\ playwright' = f.pw
             /\ stats' = IF f.bypassed
                         THEN [stats EXCEPT !["cloudflare_bypassed"] = @ + 1]
                         ELSE stats
             /\ fpLast' = FetchPageTrace(fetcher, hasKey, cloudflare_detected,
                                         consecutive_failures, playwright,
                                         use_playwright_fallback, light, browser)
             /\ tw_ref_outcome' = f.outcome
             /\ tw_state' = [detected |-> f2.detected, failures |-> f2.failures,
                             pw |-> f2.pw]
             /\ tw_trace' = FetchPageTrace(fetcher, k2, tw_state.detected,
                                           tw_state.failures, tw_state.pw,
                                           use_playwright_fallback, light, browser)
             /\ tw_outcome' = f2.outcome
    /\ hfCalls' = hfCalls + 1
    /\ UNCHANGED <<tw_reset, twinFrame>>

TwinNext == TwReset \/ TwFetchPage

TwinSpec == TwinInit /\ [][TwinNext]_vars

(***************************************************************************)
(* Claims about HybridFetcher (checked under HybridSpec).                  *)
(***************************************************************************)

\* C1: once the escalation flag _cloudflare_detected is true, no fetch call
\* (whatever the backends answer) makes it false again.
C1_EscalationMonotonic == [][cloudflare_detected => cloudflare_detected']_vars

\* An escalated instance has served a later call, which the browser answered.
C1_Witness ==
    /\ hfCalls >= 2
    /\ hfLast.pre
    /\ cloudflare_detected
    /\ hfLast.result.kind = "resp"

\* C2: a call in NORMAL state whose lightweight response is blocked and whose
\* browser response is not blocked returns the browser response, and no later
\* call on the instance invokes the lightweight backend.
C2_BlockedThenBrowser ==
    /\ (hfCalls > 0 /\ BlockedThenOk(hfLast))
          => (hfLast.result = hfLast.browser /\ cloudflare_detected)
    /\ hfPatternBefore => hfLast.light = NotInvoked

\* A blocked-then-ok call was followed by a call that the browser served.
C2_Witness ==
    /\ hfPatternBefore
    /\ hfLast.browser.kind = "resp"
    /\ hfLast.result = hfLast.browser

\* C3: when the browser response of a call is classified blocked (after a
\* blocked lightweight response in the same call, or on an escalated
\* instance), fetch returns nothing and raises "All fetch strategies failed".
C3_AllStrategiesFailed ==
    hfCalls > 0 =>
        /\ (Blocked(hfLast.light) /\ Blocked(hfLast.browser))
              => hfLast.result = Raise("RuntimeError")
        /\ (hfLast.pre /\ Blocked(hfLast.browser))
              => hfLast.result = Raise("RuntimeError")

\* Lightweight and browser responses of one call are both blocked.
C3_Witness ==
    /\ hfCalls > 0
    /\ Blocked(hfLast.light)
    /\ Blocked(hfLast.browser)
    /\ hfLast.result = Raise("RuntimeError")

(***************************************************************************)
(* Claims about retry_with_backoff (checked under RetrySpec).              *)
(***************************************************************************)

C6_ZeroRetries ==
    rt_max_retries = 0 =>
        /\ rt_calls <= 1
        /\ rt_sleeps = <<>>
        /\ rt_observed = <<>>
        /\ rt_calls = 1 => (rt_pc \in {"returned", "raised"} /\ rt_result = rt_lastOutcome)
        /\ rt_pc \in {"returned", "raised"} => rt_calls = 1

\* A retryable failure with max_retries = 0 and an observer configured.
C6_Witness ==
    /\ rt_max_retries = 0
    /\ rt_on_retry = "returns"
    /\ rt_pc = "raised"
    /\ rt_result = Fail("NetworkError", 1)

(***************************************************************************)
(* Claims about scrape_projects (checked under Spec).                      *)
(***************************************************************************)

\* C7: for every integer max_pages the caller passes, 0 included, an
\* invocation fetches at most max_pages listing pages and yields records of
\* at most max_pages listing pages.
C7_PageLimit ==
    max_pages # None =>
        /\ nListing <= max_pages
        /\ nYieldPages <= max_pages

\* C8: when scrape_listing_page returns no record, the generator ends at that
\* point: nothing is yielded for the page, stats['errors'] is left as it was,
\* nothing is raised to the consumer, and the ended generator takes no further
\* step (no listing or detail fetch).
C8_EmptyPageEnds ==
    [][/\ (pc = "parse_listing" /\ projects' = <<>>) =>
            /\ pc' = "done"
            /\ ended' = "empty"
            /\ stats'["errors"] = stats["errors"]
            /\ lastYield' = NoRecord
            /\ nYieldPages' = nYieldPages
            /\ nYieldedPage' = 0
            /\ nFetches' = nFetches
       /\ pc # "done"]_vars

\* The second listing page of a crawl came back empty after a first page whose
\* records were yielded; no error was counted.
C8_Witness ==
    /\ pc = "done"
    /\ ended = "empty"
    /\ projects = <<>>
    /\ nListing = 2
    /\ nYieldPages = 1
    /\ stats["errors"] = 0

\* C9: the k-th record yielded for a listing page is the k-th record the
\* parser returned for it; when a further listing page is fetched, every record
\* of the page before has been yielded, and the URL fetched is the next-page
\* pointer the parser returned with that page.
C9_OrderAndPagination ==
    /\ pc = "yield" =>
          /\ nYieldedPage = idx
          /\ lastYield.project_id = projects[idx].project_id
    /\ (pc = "fetch_listing" /\ nListing >= 2) =>
          /\ nYieldedPage = Len(projects)
          /\ idx = Len(projects)
          /\ next_url # NoUrl
          /\ url = next_url

\* The second listing page is being fetched, at the pointer returned with a
\* first page whose two records have both been yielded.
C9_Witness ==
    /\ pc = "fetch_listing"
    /\ nListing = 2
    /\ Len(projects) = 2
    /\ nYieldedPage = 2
    /\ url = next_url
    /\ url # PageUrl(NoUrl, current_page)

\* A _fetch_with_retry call for a detail page ends in this step by raising a
\* NetworkError on the last allowed attempt.
DetailFetchExhausted ==
    /\ pc = "fetch_detail"
    /\ lastFetch'.exhausted
    /\ Catches({"NetworkError"}, lastFetch'.exc)

\* C10 as stated: with include_details, when the detail fetch of a record
\* still raises NetworkError after the retries, the generator yields the
\* original listing record of the item, stats['errors'] grows by exactly one
\* and the generator goes on.
C10_YieldsOriginalRecord ==
    [][DetailFetchExhausted =>
            /\ pc' = "yield"
            /\ lastYield' = projects[idx]
            /\ stats'["errors"] = stats["errors"] + 1
            /\ ended' = "no"]_vars

\* C10 as the code has it: the record yielded is ProjectDetail.from_listing of
\* the item's listing record (a ProjectDetail holding the listing's fields and
\* no detail data), stats['errors'] grows by exactly one and the generator
\* goes on, suspended at the yield.
C10_YieldsFromListing ==
    [][DetailFetchExhausted =>
            /\ pc' = "yield"
            /\ lastYield' = from_listing(projects[idx])
            /\ lastYield'.project_id = projects[idx].project_id
            /\ lastYield'.data = "listing"
            /\ stats'["errors"] = stats["errors"] + 1
            /\ ended' = "no"]_vars

\* The detail fetch of the second record of a page raised NetworkError on its
\* last attempt, after the first record's detail fetch had failed the same
\* way: the record built from the listing is yielded and two errors are counted.
C10_Witness ==
    /\ include_details
    /\ pc = "yield"
    /\ idx = 2
    /\ lastFetch = [target |-> "detail", exc |-> "NetworkError", exhausted |-> TRUE]
    /\ lastYield = from_listing(projects[2])
    /\ stats["errors"] = 2

\* C11: when the fetch of a listing page ends with an exception
\* (CloudflareBlockError, NetworkError after the retries, or any other), the
\* generator stops by raising that exception to its consumer.
C11_ListingFailureRaised ==
    [][(pc = "fetch_listing" /\ lastFetch'.exc # "none") =>
            /\ pc' = "raised"
            /\ ended' = "raised"]_vars

\* C12: within one invocation no listing URL is fetched and yielded from
\* twice: the listing pages that records were yielded from are never more
\* than the distinct URLs given to scrape_listing_page.
C12_NoPageTwice == nYieldPages <= Cardinality(fetchedUrls)

(***************************************************************************)
(* Claims about RateLimiter (checked under LimiterSpec).                   *)
(***************************************************************************)

\* C13: with min_delay <= max_delay, two successive wait() calls with no
\* reset() between them return at least min_delay apart.
C13_MinSpacing ==
    (min_delay <= max_delay /\ rl_prev # None) =>
        last_request_time - rl_prev >= min_delay

\* The second of two wait() calls came one unit after the first and slept the
\* missing unit of a delay of 2.
C13_Witness ==
    /\ min_delay = 2
    /\ max_delay = 2
    /\ rl_op = "wait"
    /\ rl_prev # None
    /\ rl_slept = 1
    /\ last_request_time - rl_prev = 2

\* C14: the first wait() of a RateLimiter and the first wait() after a
\* reset() do not sleep; reset() leaves last_request_time unset and every
\* wait() leaves it set (to the time of its return).
C14_FirstWaitAndReset ==
    /\ rl_op = "reset" => last_request_time = None
    /\ rl_op = "wait" =>
          /\ last_request_time = now
          /\ last_request_time # None
          /\ rl_prev = None => rl_slept = 0

\* A wait() right after a reset() that followed an earlier wait(): it returned
\* at once although less than min_delay has passed.
C14_Witness ==
    /\ rl_op = "wait"
    /\ rl_reset_seen
    /\ rl_prev = None
    /\ rl_slept = 0
    /\ min_delay = 2
    /\ last_request_time = 0

(***************************************************************************)
(* Claims about the block classifiers (checked under ClassifySpec).        *)
(***************************************************************************)

\* C15: for every content and headers, a response whose status is not 403 or
\* 503 is reported not blocked by HybridFetcher._is_blocked and by
\* ADBProjectScraper._is_cloudflare_block, challenge signature or not.
C15_StatusGate ==
    (cl_pc = "classified" /\ cl_status \notin {403, 503}) =>
        (~cl_hybrid /\ ~cl_scraper)

\* A 200 response that starts with "Just a moment..." and carries a cf-ray
\* header was classified not blocked by both.
C15_Witness ==
    /\ cl_pc = "classified"
    /\ cl_status = 200
    /\ cl_content = {<<"Just a moment...", 0>>}
    /\ cl_headers = {"cf-ray"}
    /\ ~cl_hybrid
    /\ ~cl_scraper

(***************************************************************************)
(* Further claims about HybridFetcher (checked under HybridSpec).          *)
(***************************************************************************)

\* C16: when the lightweight backend raises during a fetch call on an
\* instance that is not escalated and use_playwright_fallback is set, the
\* escalation flag is set after the call (so that later calls skip the
\* lightweight backend).
C16_RaiseEscalates ==
    (/\ hfCalls > 0
     /\ ~hfLast.pre
     /\ hfLast.light.kind = "raise"
     /\ use_playwright_fallback) => cloudflare_detected

\* C17: when the lightweight backend raises during a fetch call on an
\* instance that is not escalated, the call raises a NetworkError, the
\* browser backend is not invoked and the instance stays not escalated.
C17_TransportFailureSurfaces ==
    (/\ hfCalls > 0
     /\ ~hfLast.pre
     /\ hfLast.light.kind = "raise") =>
        /\ hfLast.result = Raise("NetworkError")
        /\ hfLast.browser = NotInvoked
        /\ ~cloudflare_detected

(***************************************************************************)
(* Claims about _fetch_with_retry (checked under FetchSpec).               *)
(***************************************************************************)

\* C18 as stated: a _fetch_with_retry call that ends in a failure outside the
\* NetworkError family (CloudflareBlockError, or any other) has called
\* _fetch_page exactly once and has not slept.
C18_AttemptedOnce ==
    (rt_pc = "raised" /\ ~Catches({"NetworkError"}, rt_result.exc)) =>
        (rt_calls = 1 /\ rt_sleeps = <<>>)

\* C18 as the code has it: a _fetch_page call that raises a failure outside
\* the NetworkError family is the last call for the page (the wrapper raises
\* that failure at once, without a sleep after it), and it is the only call
\* when it is the first; a NetworkError or RateLimitError raised while
\* attempts remain is followed by a sleep and another call.
C18_OnlyNetworkRetried ==
    /\ (rt_lastOutcome.kind = "raise" /\ ~Catches({"NetworkError"}, rt_lastOutcome.exc)) =>
          /\ rt_pc = "raised"
          /\ rt_result = rt_lastOutcome
          /\ rt_calls = rt_attempt + 1
          /\ Len(rt_sleeps) = rt_calls - 1
          /\ rt_nfail = rt_calls
    /\ (/\ rt_lastOutcome.kind = "raise"
        /\ Catches({"NetworkError"}, rt_lastOutcome.exc)
        /\ rt_calls <= FetchMaxRetries) =>
          /\ rt_pc = "running"
          /\ rt_attempt = rt_calls
          /\ Len(rt_sleeps) = rt_calls

\* A call raised CloudflareBlockError on its second _fetch_page call, after a
\* retried failure and one sleep.
C18_Witness ==
    /\ rt_pc = "raised"
    /\ rt_result.exc = "CloudflareBlockError"
    /\ rt_calls = 2
    /\ rt_sleeps = <<0>>

\* C19: when HybridFetcher.fetch fails because the browser response was still
\* blocked ("All fetch strategies failed"), the scraper issues no further
\* request for the URL - the fallback session is not asked and the wrapper
\* does not retry - and the failure is raised out of _fetch_with_retry.
C19_AllFailedIsTerminal ==
    (fpLast.hybrid = Raise("RuntimeError") /\ Blocked(fpLast.browser)) =>
        /\ ~fpLast.session
        /\ rt_pc = "raised"

\* C20: a _fetch_with_retry call that ends with a NetworkError has called
\* _fetch_page self.max_retries + 1 times.
C20_ConfiguredRetries ==
    (rt_pc = "raised" /\ Catches({"NetworkError"}, rt_result.exc)) =>
        rt_calls = self_max_retries + 1

(***************************************************************************)
(* Claims about the statistics (checked under StatsSpec).                  *)
(***************************************************************************)

\* C21: what get_stats returns is a snapshot: the call leaves the counters as
\* they are and returns a dict equal to them, no write of the caller to a
\* returned dict changes the scraper's counters, and the counters change only
\* in a scrape operation or in reset_stats.
C21_SnapshotIsolated ==
    [][/\ st_op' = "get_stats" =>
            /\ st_heap'[st_self'] = st_heap[st_self]
            /\ \E r \in st_held' : st_heap'[r] = st_heap[st_self]
       /\ st_op' = "caller_write" => st_heap'[st_self'] = st_heap[st_self]
       /\ st_heap'[st_self'] # st_heap[st_self] => st_op' \in {"scrape", "reset_stats"}
       /\ stats' = st_heap'[st_self']]_vars

\* The caller has written to a returned dict, which now differs from the
\* scraper's counters, and the scraper has counted something.
C21_Witness ==
    /\ st_op = "caller_write"
    /\ \E r \in st_held : st_heap[r] # st_heap[st_self] /\ "errors" \notin DOMAIN st_heap[r]
    /\ \E k \in DOMAIN stats : stats[k] > 0

\* C22: right after reset_stats the statistics hold the counters they held
\* right after construction, each equal to zero.
C22_ResetRestoresCounters ==
    st_op = "reset_stats" => (DOMAIN stats = DOMAIN InitialStats /\ stats = InitialStats)

(***************************************************************************)
(* Claims about the observer and the delays of retry_with_backoff.         *)
(***************************************************************************)

\* C26 (RetrySpec): the observer is called once per retry, before the sleep,
\* with the failure just raised and the 0-based attempt index, and whatever it
\* does - raising included - the wrapper ends as it would without an
\* observer: every call it observed is followed by the sleep of that retry,
\* the wrapper raises only what the function raised, and it gives up on
\* retryable failures only after max_retries + 1 invocations.
C26_ObserverTransparent ==
    /\ rt_on_retry # "none" =>
          /\ Len(rt_observed) = Len(rt_sleeps)
          /\ \A i \in 1..Len(rt_observed) :
                rt_observed[i][1].kind = "raise" /\ rt_observed[i][2] = i - 1
    /\ rt_pc \in {"returned", "raised"} => rt_result = rt_lastOutcome
    /\ (rt_pc = "raised" /\ Catches(rt_exceptions, rt_lastOutcome.exc)) =>
          rt_calls = rt_max_retries + 1

\* C27 (BackoffSpec): every sleep of the wrapper lasts at most max_delay, with
\* jitter enabled or disabled; without jitter the sleep before attempt n+1 is
\* min(base_delay * exponential_base^n, max_delay) and the sleeps are
\* non-decreasing.
C27_SleepAtMostMaxDelay ==
    /\ \A i \in 1..Len(bo_sleeps) : bo_sleeps[i] <= Seconds(bo_max_delay)
    /\ ~bo_jitter =>
          /\ \A i \in 1..Len(bo_sleeps) :
                bo_sleeps[i] = Seconds(BackoffDelay(bo_base_delay, bo_exponential_base,
                                                    bo_max_delay, i - 1))
          /\ \A i \in 1..(Len(bo_sleeps) - 1) : bo_sleeps[i] <= bo_sleeps[i + 1]

(***************************************************************************)
(* Claims about PlaywrightFetcher.fetch (checked under PwFetchSpec).       *)
(***************************************************************************)

\* The safety part of C28.
PollBounded ==
    /\ pf_reads <= MaxWait \div WaitInterval
    /\ pf_waited = pf_reads * WaitInterval
    /\ pf_settles <= 1
    /\ pf_pc = "returned" =>
          /\ pf_settles = 1
          /\ pf_result = Resp(pf_content, StatusOf(pf_response))
          /\ pf_response # None => pf_result.status = pf_response

\* C28: in one fetch call the challenge loop re-reads the page at most
\* MaxWait / WaitInterval = 15 times, whatever the page shows; the call then
\* makes one final wait and returns the content read after it with the status
\* of the navigation's response; and the call ends (it returns or raises) when
\* every browser operation returns or raises.
C28_PollTerminates == []PollBounded /\ <>(pf_pc \in {"returned", "raised"})

\* The page showed the challenge at each of the 15 reads and at the last one;
\* the call has returned it.
C28_Witness ==
    /\ pf_pc = "returned"
    /\ pf_reads = 15
    /\ pf_waited = MaxWait
    /\ ShowsChallenge(pf_result.content)
    /\ pf_result.status = 403

(***************************************************************************)
(* Claims about the backend resources (PwSpec, RunSpec).                   *)
(***************************************************************************)

C25_CloseIdempotent ==
    [][pw_op' = "close" =>
          /\ pw_handles' = NoHandles
          /\ res_live' \cap HandleSet(pw_handles) = {}
          /\ pw_handles = NoHandles => (pw_touched' = {} /\ res_live' = res_live)]_vars

\* A fully started instance was closed twice.
C25_Witness ==
    /\ pw_op = "close"
    /\ pw_closes >= 2
    /\ pw_touched = {}
    /\ \E r \in res_all : r[1] = "page"
    /\ res_live = {}

\* C29 (RunSpec): at every moment at most one cloudscraper session and at
\* most one Playwright driver of the HybridFetcher are open, and every open
\* resource is referred to by the handle that close() will use.
C29_OneSessionEach ==
    /\ Cardinality({r \in res_live : r[1] = "driver"}) <= 1
    /\ Cardinality({r \in res_live : r[1] = "session" /\ r[2] # rs_session}) <= 1
    /\ rs_pc = "run" =>
          \A r \in res_live :
              r \in HandleSet(pw_handles) \/ r[2] \in {cs_session, rs_session}

(***************************************************************************)
(* Claims about the end of a crawl and about disabled escalation.          *)
(***************************************************************************)

\* C24 (TermSpec): when every backend call returns or raises and the consumer
\* keeps asking, every scrape_projects generator ends, whatever the server
\* answers and whether or not max_pages is given.
C24_CrawlEnds == <>(pc \in {"done", "raised"})

\* Escalation to the browser is disabled for the client.
EscalationDisabled ==
    \/ bp_client = "scraper" /\ ~fetcher
    \/ bp_client = "direct" /\ ~use_playwright_fallback

\* C30 (EscalationSpec): with escalation disabled no PlaywrightFetcher is
\* created and no call invokes the browser backend; a HybridFetcher without
\* fallback fails the call whose lightweight response is blocked, and fails
\* every later call without asking any backend.
C30_NoBrowserWhenDisabled ==
    /\ EscalationDisabled =>
          /\ ~playwright
          /\ hfLast.browser = NotInvoked
          /\ fpLast.browser = NotInvoked
    /\ (bp_client = "direct" /\ ~use_playwright_fallback /\ hfCalls > 0) =>
          /\ Blocked(hfLast.light) => hfLast.result = Raise("RuntimeError")
          /\ hfLast.pre =>
                /\ hfLast.light = NotInvoked
                /\ hfLast.browser = NotInvoked
                /\ hfLast.result = Raise("RuntimeError")

\* A HybridFetcher without fallback was blocked and has failed a later call.
C30_Witness ==
    /\ bp_client = "direct"
    /\ ~use_playwright_fallback
    /\ hfCalls >= 2
    /\ hfLast.pre
    /\ hfLast.result = Raise("RuntimeError")

(***************************************************************************)
(* Claims about the failures of a page fetch and the block classifiers.    *)
(***************************************************************************)

\* C32 (FetchSpec): when the bypass fetcher returns status 429, _fetch_page
\* raises RateLimitError, and with any other status >= 400 it raises
\* NetworkError carrying that status; the fallback session is not asked in
\* that attempt.
C32_FetcherStatusRaises ==
    (/\ rt_calls > 0
     /\ fpLast.hybrid.kind = "resp"
     /\ fpLast.hybrid.status >= 400) =>
        /\ ~fpLast.session
        /\ rt_lastOutcome = IF fpLast.hybrid.status = 429
                            THEN Fail("RateLimitError", 429)
                            ELSE Fail("NetworkError", fpLast.hybrid.status)

\* A protection-provider header is present.
ProviderHeader(headers) == "cf-ray" \in headers \/ "server: cloudflare" \in headers

\* C33 (ClassifySpec): for every (content, status, headers) the classifier of
\* HybridFetcher reports blocked exactly when the status is 403 or 503 and
\* the content holds a challenge signature or a provider header is present.
C33_HeaderRule ==
    cl_pc = "classified" =>
        (cl_hybrid <=> /\ cl_status \in {403, 503}
                       /\ \/ \E blocker \in Blockers : Occurs(blocker, cl_content)
                          \/ ProviderHeader(cl_headers))

\* C40 (HybridSpec): after a HybridFetcher.fetch call that returned a result,
\* from either backend, the consecutive_failures counter is 0.
C40_FailuresZeroAfterResult ==
    (hfCalls > 0 /\ hfLast.result.kind = "resp") => consecutive_failures = 0

(***************************************************************************)
(* Further claims about the crawl (checked under Spec).                    *)
(***************************************************************************)

\* The URL the first listing fetch of a crawl is derived from the page number.
FirstUrl(page) == IF page = 1 THEN PROJECTS_URL ELSE build_url(PROJECTS_URL, page - 1)

\* C34: the URL of each listing fetch is the next-page pointer the previous
\* listing page returned; only the first fetch is derived from the page
\* number (start_page 1: the base URL, start_page p > 1: the base URL with
\* page = p-1); current_page grows by exactly one per processed page and
\* never decreases.
C34_PointerPreferred ==
    [][/\ (pc = "loop" /\ pc' = "fetch_listing") =>
             /\ nListing = 0 => fetchedUrls' = fetchedUrls \cup {FirstUrl(start_page)}
             /\ nListing > 0 => (next_url # NoUrl /\ fetchedUrls' = fetchedUrls \cup {next_url})
       /\ current_page' \in {current_page, current_page + 1}
       /\ (current_page' = current_page + 1) <=> (pages_scraped' = pages_scraped + 1)
      ]_vars

\* A crawl that started at page 2 fetches its second page from the pointer
\* the first page returned, which is not the URL the page number gives.
C34_Witness ==
    /\ start_page = 2
    /\ nListing = 2
    /\ pc = "fetch_listing"
    /\ current_page = 3
    /\ next_url = PROJECTS_URL
    /\ fetchedUrls = {FirstUrl(2), PROJECTS_URL}

\* C36: a listing-page failure that stops the crawl (protection block or
\* transport failure after the retries) increments stats['errors'] by
\* exactly one, and a listing page that was fetched and parsed does not
\* increment it.
C36_OneErrorPerFailure ==
    [][/\ (ended = "no" /\ ended' \in {"blocked", "error"}) =>
             stats'["errors"] = stats["errors"] + 1
       /\ pc = "parse_listing" => stats'["errors"] = stats["errors"]
      ]_vars

\* C38: at every point of a crawl, also while it is suspended at a yield, no
\* counter has decreased, the records yielded so far are at most
\* stats['projects_found'], and stats['pages_scraped'] is the loop's own
\* pages_scraped or one more.
C38_CountersConsistent ==
    /\ [](/\ nYielded <= stats["projects_found"]
          /\ stats["pages_scraped"] \in {pages_scraped, pages_scraped + 1})
    /\ [][\A k \in DOMAIN stats : k \in DOMAIN stats' /\ stats'[k] >= stats[k]]_vars

\* The crawl is suspended at the first of two records of its second page.
C38_Witness ==
    /\ pc = "yield"
    /\ pages_scraped = 1
    /\ stats["pages_scraped"] = 2
    /\ nYieldedPage = 1
    /\ Len(projects) = 2
    /\ nYielded < stats["projects_found"]

(***************************************************************************)
(* Claim about InteractiveScraper.scrape (checked under InteractiveSpec).  *)
(***************************************************************************)

\* The parts of C39 about the pages parsed and about the records kept.
C39_PagesAndRecords ==
    /\ is_parsed <= is_max_pages
    /\ (is_pc = "returned" /\ is_timed_out) =>
          (is_collected > 0 /\ is_result = is_collected /\ is_saved = is_collected)

\* C39: scrape parses at most max_pages listing pages; however the call ends
\* (return, challenge timeout, exception) no browser it started is left open;
\* after a challenge timeout that follows a next-page navigation it saves and
\* returns every record collected before.
C39_InteractiveScrape ==
    /\ C39_PagesAndRecords
    /\ is_pc \in {"returned", "raised"} => \A r \in res_live : r[1] # "browser"

(***************************************************************************)
(* Claims about the pacing of requests (checked under PaceSpec).           *)
(***************************************************************************)

\* C31: a CloudscraperFetcher.fetch call issues one request, and when the
\* request fails at transport level (timeout, connection failure) the
\* exception the call raises is of the NetworkError class.
C31_LightRaisesNetworkError ==
    pa_light # NotInvoked =>
        /\ pa_light.requests = 1
        /\ pa_light.result.kind = "raise" => Catches({"NetworkError"}, pa_light.result.exc)

\* C37: any two consecutive requests of one scraper, whichever path sends
\* them, start at least the configured minimum request delay apart.
C37_RequestsSpaced == pa_min_gap # None => pa_min_gap >= min_delay

(***************************************************************************)
(* Claim about reset_stats and the fetches (checked under TwinSpec).       *)
(***************************************************************************)

\* C35: a scraper on which reset_stats was called asks the same backends and
\* gets the same result from _fetch_page as a scraper in the same state on
\* which it was not called, whatever the backends answer.
C35_ResetTransparent ==
    hfCalls > 0 => (tw_trace = fpLast /\ tw_outcome = tw_ref_outcome)

====
